---------------------------- MODULE Spec2Model ----------------------------
(***************************************************************************)
(* A state-machine model of server.py, the docx-editor MCP server.         *)
(*                                                                         *)
(* The server holds one process-wide current document and its path, works  *)
(* on files of the storage, and answers one tool call at a time.  A tool   *)
(* call is modelled in three steps: the request arrives (Receive...), the  *)
(* handler runs to completion in one step (the action that bears the       *)
(* tool's name) and the response is delivered (Reply).  While the response *)
(* is pending, pre holds the state the handler started from.               *)
(*                                                                         *)
(* Optional values (Python's None) are sequences of length at most one:    *)
(* None is <<>> and a value v is <<v>>.  A text is a sequence of           *)
(* one-character strings, so the empty string is <<>> and Some("") is      *)
(* << <<>> >>.                                                             *)
(***************************************************************************)
EXTENDS Integers, Sequences, FiniteSets, TLC

VARIABLES
    current_doc,       \* None or the current document           (server.py:355)
    current_doc_path,  \* None or the path remembered for saving (server.py:356)
    storage,           \* file name -> None or the document saved under it
    request,           \* None or the tool call being handled
    response,          \* None or the handler's answer, not yet delivered
    pre                \* None or the state the running handler started from

vars == <<current_doc, current_doc_path, storage, request, response, pre>>

-----------------------------------------------------------------------------
(* Bounds of the model *)

MaxBlocks == 3      \* body blocks of a document that is still built on
MaxParas == 2       \* paragraphs that add_paragraph adds to a body
MaxLen == 3         \* characters of a paragraph's text
MaxItems == 2       \* items of a list given to insert_numbered_list_near_text
MaxCols == 2        \* columns of a table
MaxTables == 1      \* tables of a document
MaxRuns == 3        \* runs of a paragraph that add_formatted_text appends to
MaxRows == 2        \* rows of a table

-----------------------------------------------------------------------------
(* Values *)

None == <<>>
Some(v) == <<v>>

Chars == {"a", "b"}
Files == {"f1"}

\* Python truthiness of an optional string (a file name): not None, not "".
TruthyStr(o) == o # None /\ o[1] # ""
\* Python truthiness of an optional text or list: not None, not empty.
TruthySeq(o) == o # None /\ o[1] # <<>>

\* s[lo:hi] of Python for 0 <= lo, hi (indexes from 0, hi excluded).
Slice(s, lo, hi) == SubSeq(s, lo + 1, IF hi > Len(s) THEN Len(s) ELSE hi)

\* Python's "sub in text".
Contains(text, sub) ==
    \E i \in 0..(Len(text) - Len(sub)) : SubSeq(text, i + 1, i + Len(sub)) = sub

\* str.upper() and str.lower().
Alphabet ==
    <<"a", "b", "c", "d", "e", "f", "g", "h", "i", "j", "k", "l", "m",
      "n", "o", "p", "q", "r", "s", "t", "u", "v", "w", "x", "y", "z">>
Capitals ==
    <<"A", "B", "C", "D", "E", "F", "G", "H", "I", "J", "K", "L", "M",
      "N", "O", "P", "Q", "R", "S", "T", "U", "V", "W", "X", "Y", "Z">>
Recase(text, from, to) ==
    [i \in 1..Len(text) |->
        IF \E n \in 1..Len(from) : from[n] = text[i]
        THEN to[CHOOSE n \in 1..Len(from) : from[n] = text[i]]
        ELSE text[i]]
Upper(text) == Recase(text, Alphabet, Capitals)
Lower(text) == Recase(text, Capitals, Alphabet)

RECURSIVE Flatten(_)
Flatten(ss) == IF ss = <<>> THEN <<>> ELSE Head(ss) \o Flatten(Tail(ss))

InsertAt(s, j, e) == SubSeq(s, 1, j - 1) \o <<e>> \o SubSeq(s, j, Len(s))
RemoveAt(s, j) == SubSeq(s, 1, j - 1) \o SubSeq(s, j + 1, Len(s))

-----------------------------------------------------------------------------
(* The document object model (python-docx) as far as server.py uses it *)

\* A run: text and the character formatting set on it (None = inherited).
Run(text) ==
    [text |-> text, bold |-> None, italic |-> None, underline |-> None,
     size |-> None, name |-> None, color |-> None, lang |-> None]

\* Paragraph.text: the texts of the runs, concatenated.
ParagraphText(p) == Flatten([i \in 1..Len(p.runs) |-> p.runs[i].text])

\* Pt(n) and Mm(n) for a whole number n: lengths in EMU.
Pt(n) == n * 12700
Mm(n) == n * 36000

\* Length.twips, int(round(emu / 635.0)), for a length that is not negative,
\* and the length read back from an attribute stored in twips (margins, page
\* size, indents, spacing).
Twips(emu) == (emu + 317) \div 635
StoredInTwips(emu) == Twips(emu) * 635

\* style.font and style.paragraph_format with nothing set (None = inherited).
\* Lengths are in EMU, line_spacing in 240ths of a line (as w:line holds it).
PlainFont ==
    [name |-> None, size |-> None, bold |-> None, italic |-> None,
     underline |-> None, color |-> None]
PlainFormat ==
    [alignment |-> None, line_spacing |-> None, space_before |-> None,
     space_after |-> None, first_line_indent |-> None, left_indent |-> None,
     right_indent |-> None]

\* The styles of Document(): the default template's, by name, with what the
\* template sets on them.  Paragraph and table styles have a font and a
\* paragraph format, a character style has a font only, a numbering style
\* has neither.
DefaultStyleNames ==
    {"Normal", "Heading 1", "Heading 2", "List Bullet", "List Number",
     "Table Grid", "Default Paragraph Font", "No List"}
\* style.style_id and style.hidden (w:semiHidden) in the template.
StyleIdOf(n) ==
    CASE n = "Heading 1" -> "Heading1"
      [] n = "Heading 2" -> "Heading2"
      [] n = "List Bullet" -> "ListBullet"
      [] n = "List Number" -> "ListNumber"
      [] n = "Table Grid" -> "TableGrid"
      [] n = "Default Paragraph Font" -> "DefaultParagraphFont"
      [] n = "No List" -> "NoList"
      [] OTHER -> n
StyleHidden(n) == n \in {"Default Paragraph Font", "No List"}
StyleTypeOf(n) ==
    CASE n = "Table Grid" -> "table"
      [] n = "Default Paragraph Font" -> "character"
      [] n = "No List" -> "numbering"
      [] OTHER -> "paragraph"
TemplateStyles ==
    [n \in DefaultStyleNames |->
        [type |-> StyleTypeOf(n),
         style_id |-> StyleIdOf(n),
         hidden |-> StyleHidden(n),
         base_style |-> IF n \in {"Normal", "Table Grid", "Default Paragraph Font",
                                  "No List"}
                        THEN None ELSE Some("Normal"),
         font |-> CASE n = "Heading 1" ->
                         [PlainFont EXCEPT !.bold = Some(TRUE),
                                           !.size = Some(Pt(14)),
                                           !.color = Some(<<"3", "6", "5", "F", "9", "1">>)]
                    [] n = "Heading 2" ->
                         [PlainFont EXCEPT !.bold = Some(TRUE),
                                           !.size = Some(Pt(13)),
                                           !.color = Some(<<"4", "F", "8", "1", "B", "D">>)]
                    [] OTHER -> PlainFont,
         pf |-> CASE n = "Heading 1" ->
                       [PlainFormat EXCEPT !.space_before = Some(Pt(24)),
                                           !.space_after = Some(0)]
                  [] n = "Heading 2" ->
                       [PlainFormat EXCEPT !.space_before = Some(Pt(10)),
                                           !.space_after = Some(0)]
                  [] OTHER -> PlainFormat]]

\* The one section of Document(): US Letter, portrait, margins of 1 and 1.25
\* inches, header and footer half an inch from the edge (lengths in EMU).
TemplateSection ==
    [top_margin |-> 914400, bottom_margin |-> 914400,
     left_margin |-> 1143000, right_margin |-> 1143000,
     gutter |-> 0, header_distance |-> 457200, footer_distance |-> 457200,
     page_width |-> 7772400, page_height |-> 10058400,
     orientation |-> "portrait", different_first_page |-> FALSE]

\* The text-valued core properties of Document() that the server reads or
\* writes; a value is a text, a sequence of characters.
CorePropertyNames ==
    {"author", "title", "subject", "keywords", "comments", "category",
     "content_status", "identifier", "language", "version"}
TemplateCoreProperties ==
    [n \in CorePropertyNames |->
        CASE n = "author" ->
                <<"p", "y", "t", "h", "o", "n", "-", "d", "o", "c", "x">>
          [] n = "comments" ->
                <<"g", "e", "n", "e", "r", "a", "t", "e", "d", " ", "b", "y", " ",
                  "p", "y", "t", "h", "o", "n", "-", "d", "o", "c", "x">>
          [] OTHER -> <<>>]

\* Document(): no body block, the template's styles, section and properties.
NewDocument ==
    [body |-> <<>>, styles |-> TemplateStyles, sections |-> <<TemplateSection>>,
     core_properties |-> TemplateCoreProperties]

\* doc.paragraphs: the paragraphs that are children of the body, in order.
IsParagraph(b) == b.k = "p"
IsTable(b) == b.k = "t"
Paragraphs(doc) == SelectSeq(doc.body, IsParagraph)
Tables(doc) == SelectSeq(doc.body, IsTable)

\* The position in the body of doc.paragraphs[i] (i from 0).
BodyPos(body, i) ==
    CHOOSE j \in 1..Len(body) :
        /\ body[j].k = "p"
        /\ Cardinality({m \in 1..(j - 1) : body[m].k = "p"}) = i

\* doc.styles[key]: the style of that name, "heading n" being the name the
\* template keeps for "Heading n"; failing that the style of that style id
\* (a deprecated lookup that warns); failing that, KeyError.
InternalNameOf(n) ==
    CASE n = "Heading 1" -> "heading 1"
      [] n = "Heading 2" -> "heading 2"
      [] OTHER -> n
StyleNamed(styles, key) ==
    LET named == {n \in DOMAIN styles : key \in {n, InternalNameOf(n)}}
        ided == {n \in DOMAIN styles : styles[n].style_id = key}
    IN  IF named # {} THEN Some(CHOOSE n \in named : TRUE)
        ELSE IF ided # {} THEN Some(CHOOSE n \in ided : TRUE)
        ELSE None

\* paragraph.style = name succeeds when a paragraph style of that name exists;
\* it raises KeyError for an unknown name and ValueError for a style of
\* another type.  style = None assigns nothing.  (A style id is not sent as
\* a name.)
StyleAssignable(styles, style) ==
    \/ style = None
    \/ /\ style[1] \in DOMAIN styles
       /\ styles[style[1]].type = "paragraph"

\* What insert_paragraph_before(text, style) and add_paragraph(text, style)
\* leave in the body: the new paragraph, a run added when text is not empty,
\* the style set when the assignment does not raise.
MakeParagraph(styles, text, style) ==
    [k |-> "p",
     style |-> IF style # None /\ StyleAssignable(styles, style)
               THEN style[1] ELSE "Normal",
     runs |-> IF text # <<>> THEN <<Run(text)>> ELSE <<>>,
     alignment |-> None,
     first_line_indent |-> None]

\* Paragraph.clear(): the runs go, the paragraph's own properties stay.
ClearParagraph(p) == [p EXCEPT !.runs = <<>>]

\* A table: the number of grid columns and the rows, each the sequence of its
\* cell elements.  A cell element spans span grid columns, takes part in a
\* vertical merge ("restart" opens one, "continue" carries it on) or in none,
\* and holds paragraphs.
EmptyParagraph == MakeParagraph(TemplateStyles, <<>>, None)
EmptyTc ==
    [span |-> 1, vmerge |-> "none", paras |-> <<EmptyParagraph>>,
     shading |-> None, vertical_alignment |-> None]

\* Document.add_table(rows, cols): every cell holds one empty paragraph.
NewTable(rows, cols) ==
    [k |-> "t", cols |-> cols, style |-> None, alignment |-> None,
     borders |-> None,
     rows |-> [r \in 1..rows |-> [c \in 1..cols |-> EmptyTc]]]

\* Table._cells: one entry per grid position, row after row; the entry is the
\* place <<row, cell element>> of the cell shown there.  A cell element that
\* spans several columns fills them all, and one that continues a vertical
\* merge shows the cell of the row above.
RECURSIVE CellsFrom(_, _, _, _, _)
CellsFrom(t, r, c, g, acc) ==
    IF r > Len(t.rows) THEN acc
    ELSE IF c > Len(t.rows[r]) THEN CellsFrom(t, r + 1, 1, 0, acc)
    ELSE IF g >= t.rows[r][c].span THEN CellsFrom(t, r, c + 1, 0, acc)
    ELSE CellsFrom(t, r, c, g + 1,
            Append(acc,
                IF t.rows[r][c].vmerge = "continue" /\ Len(acc) >= t.cols
                THEN acc[Len(acc) + 1 - t.cols]
                ELSE IF g > 0 THEN acc[Len(acc)]
                ELSE <<r, c>>))

TableCells(t) == CellsFrom(t, 1, 1, 0, <<>>)

\* row.cells of the row at position ri (from 1): its slice of Table._cells.
RowCells(t, ri) ==
    LET cells == TableCells(t)
        lo == ((ri - 1) * t.cols) + 1
        hi == IF ri * t.cols < Len(cells) THEN ri * t.cols ELSE Len(cells)
    IN  IF lo > hi THEN <<>> ELSE SubSeq(cells, lo, hi)

\* row.cells for every row of table.rows, one after the other.
RowCellsInOrder(t) == Flatten([ri \in 1..Len(t.rows) |-> RowCells(t, ri)])

\* seq[i] of Python: the position (from 1) that index i names, a negative
\* index counting from the end, or 0 where Python raises IndexError.
PyIndex(seq, i) ==
    IF 0 <= i /\ i < Len(seq) THEN i + 1
    ELSE IF i < 0 /\ -i <= Len(seq) THEN Len(seq) + i + 1
    ELSE 0

\* table.cell(row_idx, col_idx): self._cells[col_idx + row_idx * column_count].
TableCell(t, row_idx, col_idx) ==
    PyIndex(TableCells(t), col_idx + (row_idx * t.cols))

(* Cell.merge, as python-docx's CT_Tc does it.  A cell element is named by   *)
(* its place <<r, c>>: row r, c-th cell element of the row.                  *)

RECURSIVE SumSpans(_, _)
SumSpans(row, n) == IF n = 0 THEN 0 ELSE row[n].span + SumSpans(row, n - 1)

\* CT_Tc._grid_col (left) and right.
TcLeft(t, at) == SumSpans(t.rows[at[1]], at[2] - 1)
TcRight(t, at) == TcLeft(t, at) + t.rows[at[1]][at[2]].span

\* CT_Row.tc_at_grid_col: the cell element that starts at grid column g, 0
\* where there is none (ValueError).
TcAtGridCol(t, r, g) ==
    LET hits == {c \in 1..Len(t.rows[r]) : TcLeft(t, <<r, c>>) = g}
    IN  IF hits = {} THEN 0 ELSE CHOOSE c \in hits : TRUE

\* CT_Tc.top and bottom, as row indexes from 0 (bottom excluded).
RECURSIVE TcTop(_, _)
TcTop(t, at) ==
    IF t.rows[at[1]][at[2]].vmerge = "continue" /\ at[1] > 1
       /\ TcAtGridCol(t, at[1] - 1, TcLeft(t, at)) # 0
    THEN TcTop(t, <<at[1] - 1, TcAtGridCol(t, at[1] - 1, TcLeft(t, at))>>)
    ELSE at[1] - 1

RECURSIVE TcBottom(_, _)
TcBottom(t, at) ==
    IF t.rows[at[1]][at[2]].vmerge # "none" /\ at[1] < Len(t.rows)
       /\ TcAtGridCol(t, at[1] + 1, TcLeft(t, at)) # 0
       /\ t.rows[at[1] + 1][TcAtGridCol(t, at[1] + 1, TcLeft(t, at))].vmerge
              = "continue"
    THEN TcBottom(t, <<at[1] + 1, TcAtGridCol(t, at[1] + 1, TcLeft(t, at))>>)
    ELSE at[1]

\* CT_Tc._span_dimensions: the rectangle the two cells span, or the refusal
\* of a span that is not a rectangle (InvalidSpanError).
SpanDimensions(t, a, b) ==
    LET aT == TcTop(t, a)      bT == TcTop(t, b)
        aB == TcBottom(t, a)   bB == TcBottom(t, b)
        aL == TcLeft(t, a)     bL == TcLeft(t, b)
        aR == TcRight(t, a)    bR == TcRight(t, b)
        invertedL == (aT = bT /\ aB # bB) \/ (aL = bL /\ aR # bR)
        teeRows == IF aT < bT THEN aT < bT /\ aB > bB ELSE bT < aT /\ bB > aB
        teeCols == IF aL < bL THEN aL < bL /\ aR > bR ELSE bL < aL /\ bR > aR
        top == IF aT < bT THEN aT ELSE bT
        left == IF aL < bL THEN aL ELSE bL
        bottom == IF aB > bB THEN aB ELSE bB
        right == IF aR > bR THEN aR ELSE bR
    IN  [ok |-> ~invertedL /\ ~teeRows /\ ~teeCols,
         top |-> top, left |-> left,
         height |-> bottom - top, width |-> right - left]

\* CT_Tc._is_empty and _remove_trailing_empty_p: a paragraph without runs.
TcIsEmpty(tc) == Len(tc.paras) = 1 /\ tc.paras[1].runs = <<>>
WithoutTrailingEmptyP(paras) ==
    IF paras # <<>> /\ paras[Len(paras)].runs = <<>>
    THEN SubSeq(paras, 1, Len(paras) - 1) ELSE paras

\* CT_Tc._move_content_to(top_tc)
MoveContent(t, from, to) ==
    IF from = to \/ TcIsEmpty(t.rows[from[1]][from[2]]) THEN t
    ELSE [t EXCEPT
            !.rows[to[1]][to[2]].paras =
                WithoutTrailingEmptyP(@) \o t.rows[from[1]][from[2]].paras,
            !.rows[from[1]][from[2]].paras = <<EmptyParagraph>>]

\* CT_Tc._span_to_width: "while self.grid_span < grid_width:
\* self._swallow_next_tc(grid_width, top_tc)".  ok is FALSE where
\* _swallow_next_tc raises InvalidSpanError, the table as changed until then.
RECURSIVE SwallowToWidth(_, _, _, _)
SwallowToWidth(t, at, width, top) ==
    LET row == t.rows[at[1]]
        me == row[at[2]]
    IN  IF me.span >= width THEN [t |-> t, ok |-> TRUE]
        ELSE IF at[2] + 1 > Len(row) \/ me.span + row[at[2] + 1].span > width
        THEN [t |-> t, ok |-> FALSE]
        ELSE LET moved == MoveContent(t, <<at[1], at[2] + 1>>, top)
                 grown == [moved EXCEPT
                             !.rows[at[1]][at[2]].span = @ + row[at[2] + 1].span,
                             !.rows[at[1]] = RemoveAt(@, at[2] + 1)]
             IN  SwallowToWidth(grown, at, width, top)

\* CT_Tc._grow_to(width, height, top_tc)
RECURSIVE GrowTo(_, _, _, _, _)
GrowTo(t, at, width, height, top) ==
    LET vMerge_val == IF top # at THEN "continue"
                      ELSE IF height = 1 THEN "none" ELSE "restart"
        col == TcLeft(t, at)
        spanned == SwallowToWidth(MoveContent(t, at, top), at, width, top)
        marked == [spanned.t EXCEPT !.rows[at[1]][at[2]].vmerge = vMerge_val]
    IN  IF ~spanned.ok THEN spanned
        ELSE IF height <= 1 THEN [t |-> marked, ok |-> TRUE]
        ELSE IF at[1] + 1 > Len(marked.rows)
                \/ TcAtGridCol(marked, at[1] + 1, col) = 0
        THEN [t |-> marked, ok |-> FALSE]
        ELSE GrowTo(marked, <<at[1] + 1, TcAtGridCol(marked, at[1] + 1, col)>>,
                    width, height - 1, top)

\* cell_start.merge(cell_end): the table after the call and whether it
\* returned (ok) or raised.
MergeCells(t, a, b) ==
    LET dim == SpanDimensions(t, a, b)
    IN  IF ~dim.ok \/ TcAtGridCol(t, dim.top + 1, dim.left) = 0
        THEN [t |-> t, ok |-> FALSE]
        ELSE GrowTo(t, <<dim.top + 1, TcAtGridCol(t, dim.top + 1, dim.left)>>,
                    dim.width, dim.height,
                    <<dim.top + 1, TcAtGridCol(t, dim.top + 1, dim.left)>>)

-----------------------------------------------------------------------------
(* Requests, responses and the frame every handler shares *)

Idle == request = None
Pending(op) == request # None /\ response = None /\ request[1].op = op

Snapshot ==
    [current_doc |-> current_doc, current_doc_path |-> current_doc_path,
     storage |-> storage]

Exists(f) == f \in DOMAIN storage /\ storage[f] # None

\* "if filename and os.path.exists(filename)": the handler works on a
\* document loaded from the file, else on the current document.
Loaded(filename) == TruthyStr(filename) /\ Exists(filename[1])
OpenDoc(filename) == IF Loaded(filename) THEN storage[filename[1]] ELSE current_doc

\* The handler answers ret and leaves: nothing changed.
Answer(ret) ==
    /\ response' = Some(ret)
    /\ pre' = Some(Snapshot)
    /\ UNCHANGED <<current_doc, current_doc_path, storage, request>>

\* The handler has changed the document it opened into doc and answers ret;
\* saved tells whether it reached "if filename: doc.save(filename)".  A
\* document loaded from a file lives only in the call; the current document
\* is changed in place.
Leave(filename, doc, ret, saved) ==
    /\ response' = Some(ret)
    /\ pre' = Some(Snapshot)
    /\ current_doc' = IF Loaded(filename) THEN current_doc ELSE Some(doc)
    /\ storage' = IF saved /\ TruthyStr(filename)
                  THEN [storage EXCEPT ![filename[1]] = Some(doc)]
                  ELSE storage
    /\ UNCHANGED <<current_doc_path, request>>

Raise(exc) == [msg |-> "raise", exc |-> exc]

-----------------------------------------------------------------------------
(* Anchor resolver *)

\* The loop without its early return: the last match wins.
RECURSIVE LastContaining(_, _, _)
LastContaining(paras, target, i) ==
    IF i >= Len(paras) THEN -1
    ELSE LET later == LastContaining(paras, target, i + 1)
         IN  IF later # -1 THEN later
             ELSE IF Contains(ParagraphText(paras[i + 1]), target) THEN i
             ELSE -1

RECURSIVE FirstContaining(_, _, _)
FirstContaining(paras, target, i) ==
    IF i >= Len(paras) THEN -1
    ELSE IF Contains(ParagraphText(paras[i + 1]), target) THEN i
    ELSE FirstContaining(paras, target, i + 1)

\* The resolver without "return -1" under the index check: an index out of
\* range falls through to the text match.
find_paragraph_index_falling_through(doc, target_text, target_paragraph_index) ==
    IF target_paragraph_index # None
       /\ 0 <= target_paragraph_index[1]
       /\ target_paragraph_index[1] < Len(Paragraphs(doc))
    THEN target_paragraph_index[1]
    ELSE IF TruthySeq(target_text)
         THEN FirstContaining(Paragraphs(doc), target_text[1], 0)
         ELSE -1

\* _find_paragraph_index(doc, target_text, target_paragraph_index)
find_paragraph_index(doc, target_text, target_paragraph_index) ==
    IF target_paragraph_index # None
    THEN IF 0 <= target_paragraph_index[1]
            /\ target_paragraph_index[1] < Len(Paragraphs(doc))
         THEN target_paragraph_index[1]
         ELSE -1
    ELSE IF TruthySeq(target_text)
         THEN FirstContaining(Paragraphs(doc), target_text[1], 0)
         ELSE -1

-----------------------------------------------------------------------------
(* Block insertion *)

\* "for item in items: ref.insert_paragraph_before(item, style)" with ref the
\* block at body position j: every new paragraph lands right before ref, which
\* moves down by one.  The loop ends at the first style assignment that raises,
\* the paragraph of that item already inserted.
\* The loop inserting every item at the place the anchor had when it began:
\* each new paragraph lands before the ones inserted earlier.
RECURSIVE InsertEachAtFixedPlace(_, _, _, _, _)
InsertEachAtFixedPlace(styles, body, j, items, style) ==
    IF items = <<>> THEN [body |-> body, raised |-> FALSE]
    ELSE LET body1 == InsertAt(body, j, MakeParagraph(styles, Head(items), style))
         IN  IF ~StyleAssignable(styles, style)
             THEN [body |-> body1, raised |-> TRUE]
             ELSE InsertEachAtFixedPlace(styles, body1, j, Tail(items), style)

RECURSIVE InsertEachBefore(_, _, _, _, _)
InsertEachBefore(styles, body, j, items, style) ==
    IF items = <<>> THEN [body |-> body, raised |-> FALSE]
    ELSE LET body1 == InsertAt(body, j, MakeParagraph(styles, Head(items), style))
         IN  IF ~StyleAssignable(styles, style)
             THEN [body |-> body1, raised |-> TRUE]
             ELSE InsertEachBefore(styles, body1, j + 1, Tail(items), style)

\* "for item in items: doc.add_paragraph(item, style)": each new paragraph
\* becomes the last block of the body.
RECURSIVE AppendEach(_, _, _, _)
AppendEach(styles, body, items, style) ==
    IF items = <<>> THEN [body |-> body, raised |-> FALSE]
    ELSE LET body1 == Append(body, MakeParagraph(styles, Head(items), style))
         IN  IF ~StyleAssignable(styles, style)
             THEN [body |-> body1, raised |-> TRUE]
             ELSE AppendEach(styles, body1, Tail(items), style)

\* The branches with 'after' always appending to the document, the case of a
\* following paragraph forgotten.
InsertBlocksAfterAppending(doc, p_idx, items, style, position) ==
    IF position = "before"
    THEN LET r == InsertEachBefore(doc.styles, doc.body,
                                   BodyPos(doc.body, p_idx), items, style)
         IN  [body |-> r.body, status |-> IF r.raised THEN "raised" ELSE "ok"]
    ELSE IF position = "after"
    THEN LET r == AppendEach(doc.styles, doc.body, items, style)
         IN  [body |-> r.body, status |-> IF r.raised THEN "raised" ELSE "ok"]
    ELSE [body |-> doc.body, status |-> "invalid"]

\* The before/after branches the three insert operations share; p_idx is a
\* resolved paragraph index.  status: "ok", "raised" or "invalid" (position).
InsertBlocks(doc, p_idx, items, style, position) ==
    IF position = "before"
    THEN LET r == InsertEachBefore(doc.styles, doc.body,
                                   BodyPos(doc.body, p_idx), items, style)
         IN  [body |-> r.body, status |-> IF r.raised THEN "raised" ELSE "ok"]
    ELSE IF position = "after"
    THEN LET r == IF p_idx + 1 < Len(Paragraphs(doc))
                  THEN InsertEachBefore(doc.styles, doc.body,
                                        BodyPos(doc.body, p_idx + 1), items, style)
                  ELSE AppendEach(doc.styles, doc.body, items, style)
         IN  [body |-> r.body, status |-> IF r.raised THEN "raised" ELSE "ok"]
    ELSE [body |-> doc.body, status |-> "invalid"]

\* The shared part without "if p_idx == -1": doc.paragraphs[-1] is the last
\* paragraph, and IndexError where the document has none.
InsertNearUnchecked(r, items, style, done) ==
    LET doc == OpenDoc(r.filename)[1]
        found == find_paragraph_index(doc, r.target_text, r.target_paragraph_index)
        p_idx == IF found = -1 THEN Len(Paragraphs(doc)) - 1 ELSE found
        ins == InsertBlocks(doc, p_idx, items, style, r.position)
        out == [doc EXCEPT !.body = ins.body]
    IN  IF p_idx = -1 THEN Answer(Raise("IndexError"))
        ELSE IF ins.status = "invalid"
        THEN Answer([msg |-> "Invalid position. Use 'before' or 'after'."])
        ELSE IF ins.status = "raised"
        THEN Leave(r.filename, out, Raise("style"), FALSE)
        ELSE Leave(r.filename, out,
                   [msg |-> done, position |-> r.position, p_idx |-> found,
                    n |-> Len(items)],
                   TRUE)

\* The part the three insert operations share after their own argument check:
\* resolve the anchor, insert, save, answer done.
InsertNear(r, items, style, done) ==
    LET doc == OpenDoc(r.filename)[1]
        p_idx == find_paragraph_index(doc, r.target_text, r.target_paragraph_index)
        ins == InsertBlocks(doc, p_idx, items, style, r.position)
        out == [doc EXCEPT !.body = ins.body]
    IN  IF p_idx = -1 THEN Answer([msg |-> "Target paragraph not found."])
        ELSE IF ins.status = "invalid"
        THEN Answer([msg |-> "Invalid position. Use 'before' or 'after'."])
        ELSE IF ins.status = "raised"
        THEN Leave(r.filename, out, Raise("style"), FALSE)
        ELSE Leave(r.filename, out,
                   [msg |-> done, position |-> r.position, p_idx |-> p_idx,
                    n |-> Len(items)],
                   TRUE)

NoActiveDocument == [msg |-> "No active document. Call create_document first."]

insert_header_near_text ==
    /\ Pending("insert_header_near_text")
    /\ LET r == request[1]
       IN  IF OpenDoc(r.filename) = None THEN Answer(NoActiveDocument)
           ELSE IF ~TruthySeq(r.header_title)
           THEN Answer([msg |-> "header_title is required."])
           ELSE InsertNear(r, <<r.header_title[1]>>, r.header_style,
                           "Inserted header")

insert_line_or_paragraph_near_text ==
    /\ Pending("insert_line_or_paragraph_near_text")
    /\ LET r == request[1]
       IN  IF OpenDoc(r.filename) = None THEN Answer(NoActiveDocument)
           ELSE IF ~TruthySeq(r.line_text)
           THEN Answer([msg |-> "line_text is required."])
           ELSE InsertNear(r, <<r.line_text[1]>>, r.line_style,
                           "Inserted paragraph")

insert_numbered_list_near_text ==
    /\ Pending("insert_numbered_list_near_text")
    /\ LET r == request[1]
           style_name == IF r.bullet_type = "bullet" THEN "List Bullet"
                         ELSE "List Number"
       IN  IF OpenDoc(r.filename) = None THEN Answer(NoActiveDocument)
           ELSE IF ~TruthySeq(r.list_items)
           THEN Answer([msg |-> "list_items is required."])
           ELSE InsertNear(r, r.list_items[1], Some(style_name), "Inserted list")

-----------------------------------------------------------------------------
(* Building a document *)

\* _apply_default_styles(doc): Times New Roman in black on Normal, Heading 1
\* and Heading 2, and their paragraph formats.
ApplyDefaultStyles(styles) ==
    LET black == Some(<<"0", "0", "0", "0", "0", "0">>)
        heading(s) ==
            [s EXCEPT
               !.font.name = Some("Times New Roman"),
               !.font.size = Some(Pt(16)),
               !.font.bold = Some(FALSE),
               !.font.color = black,
               !.pf.alignment = Some("CENTER"),
               !.pf.space_before = Some(Pt(0)),
               !.pf.space_after = Some(Pt(12)),
               !.pf.line_spacing = Some(240),
               !.pf.first_line_indent = Some(0)]
    IN  [styles EXCEPT
           !["Normal"] =
               [@ EXCEPT
                  !.font.name = Some("Times New Roman"),
                  !.font.size = Some(Pt(14)),
                  !.font.color = black,
                  !.pf.alignment = Some("JUSTIFY"),
                  !.pf.line_spacing = Some(276),
                  !.pf.space_after = Some(Pt(12)),
                  !.pf.first_line_indent = Some(457200)],
           !["Heading 1"] = heading(@),
           !["Heading 2"] = heading(@)]

\* The margins create_document sets on every section.
WithDefaultMargins(section) ==
    [section EXCEPT !.top_margin = StoredInTwips(Mm(15)),
                    !.bottom_margin = StoredInTwips(Mm(15)),
                    !.left_margin = StoredInTwips(Mm(20)),
                    !.right_margin = StoredInTwips(Mm(20))]

\* The document create_document makes current.
CreatedDocument ==
    [NewDocument EXCEPT
       !.sections = [i \in 1..Len(@) |-> WithDefaultMargins(@[i])],
       !.styles = ApplyDefaultStyles(@)]

\* A create_document that also writes the new document to its file.
create_document_saving ==
    /\ Pending("create_document")
    /\ response' = Some([msg |-> "Created new document.",
                         filename |-> request[1].filename])
    /\ pre' = Some(Snapshot)
    /\ current_doc' = Some(CreatedDocument)
    /\ current_doc_path' = Some(request[1].filename)
    /\ storage' = [storage EXCEPT ![request[1].filename] = Some(CreatedDocument)]
    /\ UNCHANGED request

create_document ==
    /\ Pending("create_document")
    /\ response' = Some([msg |-> "Created new document.",
                         filename |-> request[1].filename])
    /\ pre' = Some(Snapshot)
    /\ current_doc' = Some(CreatedDocument)
    /\ current_doc_path' = Some(request[1].filename)
    /\ UNCHANGED <<storage, request>>

AlignmentNames == {"LEFT", "CENTER", "RIGHT", "JUSTIFY"}

add_paragraph ==
    /\ Pending("add_paragraph")
    /\ LET r == request[1]
       IN  IF current_doc = None THEN Answer(NoActiveDocument)
           ELSE LET doc == current_doc[1]
                    p == MakeParagraph(doc.styles, r.text, None)
                    p1 == IF r.alignment \in AlignmentNames
                          THEN [p EXCEPT !.alignment = Some(r.alignment)] ELSE p
                    p2 == IF ~r.indent_first_line
                          THEN [p1 EXCEPT !.first_line_indent = Some(0)] ELSE p1
                IN  /\ response' = Some([msg |-> "Added paragraph",
                                         text |-> Slice(r.text, 0, 30)])
                    /\ pre' = Some(Snapshot)
                    /\ current_doc' = Some([doc EXCEPT !.body = Append(@, p2)])
                    /\ UNCHANGED <<current_doc_path, storage, request>>

add_formatted_text ==
    /\ Pending("add_formatted_text")
    /\ LET r == request[1]
       IN  IF current_doc = None THEN Answer(NoActiveDocument)
           ELSE LET doc == current_doc[1]
                    at == PyIndex(Paragraphs(doc), r.paragraph_index)
                    run == [Run(r.text) EXCEPT
                              !.bold = Some(r.bold),
                              !.italic = Some(r.italic),
                              !.size = IF r.font_size # None /\ r.font_size[1] # 0
                                       THEN r.font_size ELSE None,
                              !.lang = IF TruthyStr(r.lang) THEN r.lang ELSE None]
                IN  IF at = 0
                    THEN Answer([msg |-> "Paragraph index out of range.",
                                 paragraph_index |-> r.paragraph_index])
                    ELSE /\ response' =
                                Some([msg |-> "Appended formatted text",
                                      paragraph_index |-> r.paragraph_index])
                         /\ pre' = Some(Snapshot)
                         /\ current_doc' =
                                Some([doc EXCEPT
                                        !.body[BodyPos(doc.body, at - 1)].runs =
                                            Append(@, run)])
                         /\ UNCHANGED <<current_doc_path, storage, request>>

\* table.style = name: a table style of that name must exist.
TableStyleAssignable(styles, name) ==
    name \in DOMAIN styles /\ styles[name].type = "table"

TableAlignmentNames == {"CENTER", "LEFT", "RIGHT"}

add_table ==
    /\ Pending("add_table")
    /\ LET r == request[1]
       IN  IF current_doc = None THEN Answer(NoActiveDocument)
           ELSE LET doc == current_doc[1]
                    t0 == NewTable(r.rows, r.cols)
                    styled == TruthyStr(r.style)
                    refused == styled /\ ~TableStyleAssignable(doc.styles, r.style[1])
                    t1 == IF styled /\ ~refused THEN [t0 EXCEPT !.style = r.style]
                          ELSE t0
                    t2 == IF r.alignment \in TableAlignmentNames
                          THEN [t1 EXCEPT !.alignment = Some(r.alignment)] ELSE t1
                IN  /\ response' =
                        IF refused
                        THEN Some([msg |-> "Error applying style to table",
                                   style |-> r.style])
                        ELSE Some([msg |-> "Added new table", rows |-> r.rows,
                                   cols |-> r.cols, style |-> r.style])
                    /\ pre' = Some(Snapshot)
                    /\ current_doc' =
                        Some([doc EXCEPT
                                !.body = Append(@, IF refused THEN t1 ELSE t2)])
                    /\ UNCHANGED <<current_doc_path, storage, request>>

\* The position in the body of doc.tables[i] (i from 0, as PyIndex gives it).
TablePos(body, i) ==
    CHOOSE j \in 1..Len(body) :
        /\ body[j].k = "t"
        /\ Cardinality({m \in 1..(j - 1) : body[m].k = "t"}) = i

set_table_cell ==
    /\ Pending("set_table_cell")
    /\ LET r == request[1]
       IN  IF current_doc = None THEN Answer(NoActiveDocument)
           ELSE LET doc == current_doc[1]
                    ti == PyIndex(Tables(doc), r.table_index)
                    t == Tables(doc)[ti]
                    ci == TableCell(t, r.row_index, r.col_index)
                    at == TableCells(t)[ci]
                    run0 == Run(r.text)
                    run1 == IF r.bold THEN [run0 EXCEPT !.bold = Some(TRUE)]
                            ELSE run0
                    run2 == IF r.italic THEN [run1 EXCEPT !.italic = Some(TRUE)]
                            ELSE run1
                    para == [EmptyParagraph EXCEPT
                               !.runs = <<Run(<<>>), run2>>,
                               !.alignment = IF r.alignment # None
                                                /\ r.alignment[1] \in AlignmentNames
                                             THEN r.alignment ELSE None]
                IN  IF ti = 0 \/ ci = 0
                    THEN Answer([msg |-> "Table or cell index out of range."])
                    ELSE /\ response' =
                                Some([msg |-> "Updated cell",
                                      row_index |-> r.row_index,
                                      col_index |-> r.col_index,
                                      table_index |-> r.table_index])
                         /\ pre' = Some(Snapshot)
                         /\ current_doc' =
                                Some([doc EXCEPT
                                        !.body[TablePos(doc.body, ti - 1)]
                                            .rows[at[1]][at[2]].paras = <<para>>])
                         /\ UNCHANGED <<current_doc_path, storage, request>>

merge_table_cells ==
    /\ Pending("merge_table_cells")
    /\ LET r == request[1]
       IN  IF current_doc = None THEN Answer(NoActiveDocument)
           ELSE LET doc == current_doc[1]
                    ti == PyIndex(Tables(doc), r.table_index)
                    t == Tables(doc)[ti]
                    ca == TableCell(t, r.start_row, r.start_col)
                    cb == TableCell(t, r.end_row, r.end_col)
                    m == MergeCells(t, TableCells(t)[ca], TableCells(t)[cb])
                IN  IF ti = 0 \/ ca = 0 \/ cb = 0
                    THEN Answer([msg |-> "Table or cell indices out of range."])
                    ELSE /\ response' =
                                IF m.ok
                                THEN Some([msg |-> "Merged cells",
                                           table_index |-> r.table_index])
                                ELSE Some(Raise("InvalidSpanError"))
                         /\ pre' = Some(Snapshot)
                         /\ current_doc' =
                                Some([doc EXCEPT
                                        !.body[TablePos(doc.body, ti - 1)] = m.t])
                         /\ UNCHANGED <<current_doc_path, storage, request>>

save_document ==
    /\ Pending("save_document")
    /\ LET r == request[1]
           target_path == IF TruthyStr(r.filename) THEN r.filename
                          ELSE current_doc_path
       IN  IF current_doc = None THEN Answer(NoActiveDocument)
           ELSE IF ~TruthyStr(target_path)
           THEN Answer([msg |-> "No filename specified."])
           ELSE /\ response' = Some([msg |-> "Document saved",
                                     target_path |-> target_path[1]])
                /\ pre' = Some(Snapshot)
                /\ storage' = [storage EXCEPT ![target_path[1]] = current_doc]
                /\ UNCHANGED <<current_doc, current_doc_path, request>>

-----------------------------------------------------------------------------
(* Range formatter *)

\* "c = color.replace('#', ''); if len(c) == 6: RGBColor(int(c[0:2], 16), ...)"
\* inside try/except: the colour of six hexadecimal digits, None for any
\* other string.
HexDigits ==
    {"0", "1", "2", "3", "4", "5", "6", "7", "8", "9",
     "A", "B", "C", "D", "E", "F", "a", "b", "c", "d", "e", "f"}
NotHash(ch) == ch # "#"
ParseColor(color) ==
    LET c == SelectSeq(color, NotHash)
    IN  IF Len(c) = 6 /\ \A i \in 1..6 : c[i] \in HexDigits
        THEN Some(Upper(c)) ELSE None

\* The range test with > for >=: an empty range passes.
ValidRangeAllowingEmpty(start_pos, end_pos) == ~(start_pos < 0 \/ start_pos > end_pos)

\* Line 180: the range the call may format.
ValidRange(start_pos, end_pos) == ~(start_pos < 0 \/ start_pos >= end_pos)

\* The rebuild without p.clear(): the new runs follow the old ones.
FormatParagraphUncleared(p, start_pos, end_pos, r) ==
    LET full_text == ParagraphText(p)
        part1_text == Slice(full_text, 0, start_pos)
        part2_text == Slice(full_text, start_pos, end_pos)
        part3_text == Slice(full_text, end_pos, Len(full_text))
        parsed == IF r.color # None THEN ParseColor(r.color[1]) ELSE None
        run == [Run(part2_text) EXCEPT
                  !.bold = r.bold,
                  !.italic = r.italic,
                  !.underline = r.underline,
                  !.size = r.font_size,
                  !.name = r.font_name,
                  !.color = parsed]
    IN  [p EXCEPT
           !.runs = @ \o (IF part1_text # <<>> THEN <<Run(part1_text)>> ELSE <<>>)
                    \o (IF part2_text # <<>> THEN <<run>> ELSE <<>>)
                    \o (IF part3_text # <<>> THEN <<Run(part3_text)>> ELSE <<>>)]

\* Lines 186-216: the paragraph cleared and rebuilt from its text in at most
\* three runs, the requested formatting on the middle one.
FormatParagraph(p, start_pos, end_pos, r) ==
    LET full_text == ParagraphText(p)
        part1_text == Slice(full_text, 0, start_pos)
        part2_text == Slice(full_text, start_pos, end_pos)
        part3_text == Slice(full_text, end_pos, Len(full_text))
        parsed == IF r.color # None THEN ParseColor(r.color[1]) ELSE None
        run == [Run(part2_text) EXCEPT
                  !.bold = r.bold,
                  !.italic = r.italic,
                  !.underline = r.underline,
                  !.size = r.font_size,
                  !.name = r.font_name,
                  !.color = parsed]
    IN  [ClearParagraph(p) EXCEPT
           !.runs = (IF part1_text # <<>> THEN <<Run(part1_text)>> ELSE <<>>)
                    \o (IF part2_text # <<>> THEN <<run>> ELSE <<>>)
                    \o (IF part3_text # <<>> THEN <<Run(part3_text)>> ELSE <<>>)]

format_text ==
    /\ Pending("format_text")
    /\ LET r == request[1]
       IN  IF OpenDoc(r.filename) = None THEN Answer(NoActiveDocument)
           ELSE LET doc == OpenDoc(r.filename)[1]
                    valid == /\ r.paragraph_index # None
                             /\ r.paragraph_index[1] >= 0
                             /\ r.paragraph_index[1] < Len(Paragraphs(doc))
                    at == BodyPos(doc.body, r.paragraph_index[1])
                    len == Len(ParagraphText(doc.body[at]))
                    end_pos == IF r.end_pos = None \/ r.end_pos[1] > len
                               THEN len ELSE r.end_pos[1]
                IN  IF ~valid THEN Answer([msg |-> "Invalid paragraph index."])
                    ELSE IF ~ValidRange(r.start_pos, end_pos)
                    THEN Answer([msg |-> "Invalid start_pos or end_pos."])
                    ELSE Leave(r.filename,
                               [doc EXCEPT !.body[at] =
                                   FormatParagraph(@, r.start_pos, end_pos, r)],
                               [msg |-> "Formatted text",
                                paragraph_index |-> r.paragraph_index[1],
                                start_pos |-> r.start_pos, end_pos |-> end_pos],
                               TRUE)

-----------------------------------------------------------------------------
(* Search and replace *)

\* str.replace(find, replace) for a non-empty find: the occurrences are taken
\* from the left and do not overlap.
RECURSIVE ReplaceText(_, _, _)
ReplaceText(text, find, replace) ==
    IF Len(text) < Len(find) THEN text
    ELSE IF SubSeq(text, 1, Len(find)) = find
    THEN replace \o ReplaceText(SubSeq(text, Len(find) + 1, Len(text)), find, replace)
    ELSE <<Head(text)>> \o ReplaceText(Tail(text), find, replace)

\* Lines 244-249 and 256-261: the body of the loops, for one paragraph.
ReplaceInParagraph(p, find, replace) ==
    IF Contains(ParagraphText(p), find)
    THEN [p |-> [ClearParagraph(p) EXCEPT
                   !.runs = <<Run(ReplaceText(ParagraphText(p), find, replace))>>],
          n |-> 1]
    ELSE [p |-> p, n |-> 0]

\* "for p in ...paragraphs" over a sequence of paragraphs.
RECURSIVE ReplaceInParagraphs(_, _, _)
ReplaceInParagraphs(paras, find, replace) ==
    IF paras = <<>> THEN [paras |-> <<>>, n |-> 0]
    ELSE LET h == ReplaceInParagraph(Head(paras), find, replace)
             rest == ReplaceInParagraphs(Tail(paras), find, replace)
         IN  [paras |-> <<h.p>> \o rest.paras, n |-> h.n + rest.n]

\* "for row in table.rows: for cell in row.cells: for p in cell.paragraphs":
\* visits is what is left of the cells of the rows, a merged cell standing
\* once for every grid position it covers.
RECURSIVE ReplaceInCells(_, _, _, _)
ReplaceInCells(t, visits, find, replace) ==
    IF visits = <<>> THEN [t |-> t, n |-> 0]
    ELSE LET at == Head(visits)
             done == ReplaceInParagraphs(t.rows[at[1]][at[2]].paras, find, replace)
             rest == ReplaceInCells(
                        [t EXCEPT !.rows[at[1]][at[2]].paras = done.paras],
                        Tail(visits), find, replace)
         IN  [t |-> rest.t, n |-> done.n + rest.n]

\* "for p in doc.paragraphs" and "for table in doc.tables", over the body:
\* pass 1 changes the paragraphs, pass 2 the tables.
RECURSIVE ReplaceInBody(_, _, _, _)
ReplaceInBody(body, pass, find, replace) ==
    IF body = <<>> THEN [body |-> <<>>, n |-> 0]
    ELSE LET b == Head(body)
             rest == ReplaceInBody(Tail(body), pass, find, replace)
             one == IF pass = 1 /\ b.k = "p"
                    THEN LET h == ReplaceInParagraph(b, find, replace)
                         IN  [b |-> h.p, n |-> h.n]
                    ELSE IF pass = 2 /\ b.k = "t"
                    THEN LET h == ReplaceInCells(b, RowCellsInOrder(b), find, replace)
                         IN  [b |-> h.t, n |-> h.n]
                    ELSE [b |-> b, n |-> 0]
         IN  [body |-> <<one.b>> \o rest.body, n |-> one.n + rest.n]

\* Lines 240-261: the document after the two loops and replace_count.
ReplaceAll(doc, find, replace) ==
    LET paragraphs == ReplaceInBody(doc.body, 1, find, replace)
        tables == ReplaceInBody(paragraphs.body, 2, find, replace)
    IN  [doc |-> [doc EXCEPT !.body = tables.body],
         replace_count |-> paragraphs.n + tables.n]

search_and_replace ==
    /\ Pending("search_and_replace")
    /\ LET r == request[1]
           replace_text == IF r.replace_text = None THEN <<>> ELSE r.replace_text[1]
       IN  IF OpenDoc(r.filename) = None THEN Answer(NoActiveDocument)
           ELSE IF ~TruthySeq(r.find_text)
           THEN Answer([msg |-> "find_text is required."])
           ELSE LET out == ReplaceAll(OpenDoc(r.filename)[1], r.find_text[1],
                                      replace_text)
                IN  Leave(r.filename, out.doc,
                          [msg |-> "Replaced", find_text |-> r.find_text[1],
                           replace_text |-> replace_text,
                           replace_count |-> out.replace_count],
                          TRUE)

-----------------------------------------------------------------------------
(* Deleting a paragraph *)

\* Removal by the paragraph's index taken as an index of the body's blocks.
RemoveBlock(doc, paragraph_index) ==
    [doc EXCEPT !.body = RemoveAt(@, paragraph_index + 1)]

\* "p = doc.paragraphs[paragraph_index]; p._element.getparent().remove(...)"
RemoveParagraph(doc, paragraph_index) ==
    [doc EXCEPT !.body = RemoveAt(@, BodyPos(doc.body, paragraph_index))]

delete_paragraph ==
    /\ Pending("delete_paragraph")
    /\ LET r == request[1]
       IN  IF OpenDoc(r.filename) = None THEN Answer(NoActiveDocument)
           ELSE LET doc == OpenDoc(r.filename)[1]
                    valid == /\ r.paragraph_index # None
                             /\ r.paragraph_index[1] >= 0
                             /\ r.paragraph_index[1] < Len(Paragraphs(doc))
                IN  IF ~valid THEN Answer([msg |-> "Invalid paragraph index."])
                    ELSE Leave(r.filename,
                               RemoveParagraph(doc, r.paragraph_index[1]),
                               [msg |-> "Deleted paragraph",
                                paragraph_index |-> r.paragraph_index[1]],
                               TRUE)

-----------------------------------------------------------------------------
(* Headings, list items and the other table operations *)

\* The handler has changed the current document into doc and answers ret.
Change(doc, ret) ==
    /\ response' = Some(ret)
    /\ pre' = Some(Snapshot)
    /\ current_doc' = Some(doc)
    /\ UNCHANGED <<current_doc_path, storage, request>>

\* Document.add_heading names the style: "Title" for level 0, else
\* "Heading %d" % level.
HeadingStyle(level) ==
    IF level = 0 THEN "Title" ELSE "Heading " \o ToString(level)

\* "current_doc.add_heading(text, level)" and what follows it.  The library
\* refuses a level outside 0..9 before it adds anything; the paragraph is in
\* the body before its style is assigned.
AddHeading(r, font_size, done) ==
    LET doc == current_doc[1]
        style == Some(HeadingStyle(r.level))
        h == MakeParagraph(doc.styles, r.text, style)
        sized == IF font_size # None /\ font_size[1] # 0
                 THEN [h EXCEPT !.runs =
                          [j \in 1..Len(h.runs) |->
                              [h.runs[j] EXCEPT !.size = font_size]]]
                 ELSE h
    IN  IF ~(0 <= r.level /\ r.level <= 9) THEN Answer(Raise("ValueError"))
        ELSE IF ~StyleAssignable(doc.styles, style)
        THEN Change([doc EXCEPT !.body = Append(@, h)], Raise("style"))
        ELSE Change([doc EXCEPT !.body = Append(@, sized)],
                    [msg |-> done, level |-> r.level, text |-> r.text])

add_heading ==
    /\ Pending("add_heading")
    /\ IF current_doc = None THEN Answer(NoActiveDocument)
       ELSE AddHeading(request[1], None, "Added heading level")

add_heading_custom ==
    /\ Pending("add_heading_custom")
    /\ IF current_doc = None THEN Answer(NoActiveDocument)
       ELSE AddHeading(request[1], request[1].font_size,
                       "Added custom heading level")

add_list_item ==
    /\ Pending("add_list_item")
    /\ LET r == request[1]
       IN  IF current_doc = None THEN Answer(NoActiveDocument)
           ELSE LET doc == current_doc[1]
                    p == MakeParagraph(doc.styles, r.text, r.style)
                    out == [doc EXCEPT !.body = Append(@, p)]
                IN  IF ~StyleAssignable(doc.styles, r.style)
                    THEN Change(out, Raise("style"))
                    ELSE Change(out, [msg |-> "Added list item."])

\* The table doc.tables[ti - 1] replaced by t.
WithTable(doc, ti, t) == [doc EXCEPT !.body[TablePos(doc.body, ti - 1)] = t]

\* Table.add_row(): one cell element for every grid column.
add_table_row ==
    /\ Pending("add_table_row")
    /\ LET r == request[1]
       IN  IF current_doc = None THEN Answer(NoActiveDocument)
           ELSE LET doc == current_doc[1]
                    ti == PyIndex(Tables(doc), r.table_index)
                    t == Tables(doc)[ti]
                    t1 == [t EXCEPT !.rows =
                              Append(@, [c \in 1..t.cols |-> EmptyTc])]
                IN  IF ti = 0
                    THEN Answer([msg |-> "Table index out of range.",
                                 table_index |-> r.table_index])
                    ELSE Change(WithTable(doc, ti, t1),
                                [msg |-> "Added new row to table",
                                 table_index |-> r.table_index,
                                 rows |-> Len(t1.rows)])

\* Table.add_column(width): a grid column more and a cell element at the end
\* of every row.  "width = Pt(width_pt) if width_pt else None": the library
\* cannot set a cell's width to None, so with a row in the table the call
\* raises once the first row has its new cell.
add_table_column ==
    /\ Pending("add_table_column")
    /\ LET r == request[1]
       IN  IF current_doc = None THEN Answer(NoActiveDocument)
           ELSE LET doc == current_doc[1]
                    ti == PyIndex(Tables(doc), r.table_index)
                    t == Tables(doc)[ti]
                    wide == r.width_pt # None /\ r.width_pt[1] # 0
                    t1 == [t EXCEPT !.cols = @ + 1,
                                    !.rows = [j \in 1..Len(t.rows) |->
                                                 Append(t.rows[j], EmptyTc)]]
                    t2 == [t EXCEPT !.cols = @ + 1,
                                    !.rows[1] = Append(@, EmptyTc)]
                IN  IF ti = 0
                    THEN Answer([msg |-> "Table index out of range.",
                                 table_index |-> r.table_index])
                    ELSE IF ~wide /\ t.rows # <<>>
                    THEN Change(WithTable(doc, ti, t2), Raise("TypeError"))
                    ELSE Change(WithTable(doc, ti, t1),
                                [msg |-> "Added new column to table",
                                 table_index |-> r.table_index,
                                 cols |-> t1.cols])

VerticalAlignmentNames == {"TOP", "CENTER", "BOTTOM"}

set_table_cell_style ==
    /\ Pending("set_table_cell_style")
    /\ LET r == request[1]
       IN  IF current_doc = None THEN Answer(NoActiveDocument)
           ELSE LET doc == current_doc[1]
                    ti == PyIndex(Tables(doc), r.table_index)
                    t == Tables(doc)[ti]
                    ci == TableCell(t, r.row_index, r.col_index)
                    at == TableCells(t)[ci]
                    tc == t.rows[at[1]][at[2]]
                    tc1 == IF r.vertical_alignment # None
                              /\ r.vertical_alignment[1] \in VerticalAlignmentNames
                           THEN [tc EXCEPT !.vertical_alignment =
                                              r.vertical_alignment]
                           ELSE tc
                    tc2 == IF TruthySeq(r.shading_color)
                           THEN [tc1 EXCEPT !.shading =
                                    Some(SelectSeq(r.shading_color[1], NotHash))]
                           ELSE tc1
                IN  IF ti = 0 \/ ci = 0
                    THEN Answer([msg |-> "Table or cell index out of range."])
                    ELSE Change(WithTable(doc, ti,
                                    [t EXCEPT !.rows[at[1]][at[2]] = tc2]),
                                [msg |-> "Updated style for cell",
                                 row_index |-> r.row_index,
                                 col_index |-> r.col_index,
                                 table_index |-> r.table_index])

\* border_color = None has no replace(): the AttributeError is caught before
\* the table is touched.
set_table_borders ==
    /\ Pending("set_table_borders")
    /\ LET r == request[1]
       IN  IF current_doc = None THEN Answer(NoActiveDocument)
           ELSE LET doc == current_doc[1]
                    ti == PyIndex(Tables(doc), r.table_index)
                    t == Tables(doc)[ti]
                IN  IF ti = 0
                    THEN Answer([msg |-> "Table index out of range.",
                                 table_index |-> r.table_index])
                    ELSE IF r.border_color = None
                    THEN Answer([msg |-> "Error setting table borders"])
                    ELSE Change(WithTable(doc, ti,
                                    [t EXCEPT !.borders =
                                        Some([sz |-> r.border_size,
                                              color |-> SelectSeq(r.border_color[1],
                                                                  NotHash)])]),
                                [msg |-> "Updated borders for table",
                                 table_index |-> r.table_index])

\* "row = table.rows[row_index]" then the row element is removed.
delete_table_row ==
    /\ Pending("delete_table_row")
    /\ LET r == request[1]
       IN  IF current_doc = None THEN Answer(NoActiveDocument)
           ELSE LET doc == current_doc[1]
                    ti == PyIndex(Tables(doc), r.table_index)
                    t == Tables(doc)[ti]
                    ri == PyIndex(t.rows, r.row_index)
                IN  IF ti = 0 \/ ri = 0
                    THEN Answer([msg |-> "Table or row index out of range."])
                    ELSE Change(WithTable(doc, ti,
                                    [t EXCEPT !.rows = RemoveAt(@, ri)]),
                                [msg |-> "Deleted row",
                                 row_index |-> r.row_index,
                                 table_index |-> r.table_index])

\* "for row in table.rows: cell = row.cells[col_index]; remove the cell's
\* element", from row ri on.  The rows were listed before the loop; each
\* row.cells is read from the table as the removals so far have left it.
\* raised: row.cells[col_index] was an IndexError.
RECURSIVE DeleteCells(_, _, _, _)
DeleteCells(t, ri, n, col_index) ==
    IF ri > n THEN [t |-> t, raised |-> FALSE]
    ELSE LET cells == RowCells(t, ri)
             ci == PyIndex(cells, col_index)
             at == cells[ci]
         IN  IF ci = 0 THEN [t |-> t, raised |-> TRUE]
             ELSE DeleteCells([t EXCEPT !.rows[at[1]] = RemoveAt(@, at[2])],
                              ri + 1, n, col_index)

delete_table_column ==
    /\ Pending("delete_table_column")
    /\ LET r == request[1]
       IN  IF current_doc = None THEN Answer(NoActiveDocument)
           ELSE LET doc == current_doc[1]
                    ti == PyIndex(Tables(doc), r.table_index)
                    t == Tables(doc)[ti]
                    d == DeleteCells(t, 1, Len(t.rows), r.col_index)
                IN  IF ti = 0 THEN Answer([msg |-> "Table index out of range."])
                    ELSE IF r.col_index >= t.cols
                    THEN Answer([msg |-> "Column index out of range."])
                    ELSE Change(WithTable(doc, ti, d.t),
                                IF d.raised
                                THEN [msg |-> "Error deleting column"]
                                ELSE [msg |-> "Deleted column",
                                      col_index |-> r.col_index,
                                      table_index |-> r.table_index])

-----------------------------------------------------------------------------
(* Custom styles *)

\* doc.styles.add_style(style_name, 1) with base_style and the font
\* properties given (lines 332-346).
CustomStyle(r) ==
    [type |-> "paragraph",
     style_id |-> r.style_name[1],
     hidden |-> FALSE,
     base_style |-> Some(r.base_style[1]),
     font |-> [PlainFont EXCEPT
                 !.bold = r.bold,
                 !.italic = r.italic,
                 !.size = IF r.font_size # None THEN Some(Pt(r.font_size[1]))
                          ELSE None,
                 !.name = r.font_name,
                 !.color = IF r.color # None THEN ParseColor(r.color[1]) ELSE None],
     pf |-> PlainFormat]

\* The handler without its look-up of style_name: add_style on a name in use.
create_custom_style_overwriting ==
    /\ Pending("create_custom_style")
    /\ LET r == request[1]
       IN  IF OpenDoc(r.filename) = None THEN Answer(NoActiveDocument)
           ELSE IF ~TruthyStr(r.style_name)
           THEN Answer([msg |-> "style_name is required."])
           ELSE Leave(r.filename,
                      [OpenDoc(r.filename)[1] EXCEPT !.styles =
                          (r.style_name[1] :> CustomStyle(r)) @@ @],
                      [msg |-> "Created custom paragraph style",
                       style_name |-> r.style_name[1]],
                      TRUE)

create_custom_style ==
    /\ Pending("create_custom_style")
    /\ LET r == request[1]
       IN  IF OpenDoc(r.filename) = None THEN Answer(NoActiveDocument)
           ELSE LET doc == OpenDoc(r.filename)[1]
                IN  IF ~TruthyStr(r.style_name)
                    THEN Answer([msg |-> "style_name is required."])
                    ELSE IF StyleNamed(doc.styles, r.style_name[1]) # None
                    THEN Answer([msg |-> "Style already exists.",
                                 style_name |-> r.style_name[1]])
                    ELSE IF r.base_style = None
                            \/ StyleNamed(doc.styles, r.base_style[1]) = None
                    THEN Answer([msg |-> "Base style does not exist.",
                                 base_style |-> r.base_style])
                    ELSE Leave(r.filename,
                               [doc EXCEPT !.styles =
                                   (r.style_name[1] :>
                                       [CustomStyle(r) EXCEPT !.base_style =
                                           StyleNamed(doc.styles, r.base_style[1])])
                                   @@ @],
                               [msg |-> "Created custom paragraph style",
                                style_name |-> r.style_name[1]],
                               TRUE)

-----------------------------------------------------------------------------
(* JSON: values, texts, json.loads and json.dumps *)

\* A JSON value.  A number is the fraction n/d (d > 0), so that the floats
\* the server computes from lengths keep their value.  A string is carried
\* as a text (a sequence of characters) where the server looks into it, and
\* as a name where it only compares or stores it; object keys are names.
JNull == [j |-> "null"]
JBool(b) == [j |-> "bool", b |-> b]
JRat(n, d) == [j |-> "num", n |-> n, d |-> d]
JNum(n) == JRat(n, 1)
JStr(s) == [j |-> "str", s |-> s]
JName(n) == [j |-> "str", name |-> n]
JArr(a) == [j |-> "arr", a |-> a]
JObj(o) == [j |-> "obj", o |-> o]

IsText(v) == v.j = "str" /\ "s" \in DOMAIN v
IsName(v) == v.j = "str" /\ "name" \in DOMAIN v

\* Python truthiness of a decoded value.
Truthy(v) ==
    CASE v.j = "null" -> FALSE
      [] v.j = "bool" -> v.b
      [] v.j = "num" -> v.n # 0
      [] v.j = "str" -> IF IsText(v) THEN v.s # <<>> ELSE v.name # ""
      [] v.j = "arr" -> v.a # <<>>
      [] v.j = "obj" -> DOMAIN v.o # {}

\* "key in v" for a decoded value v and a key the server names: membership
\* for a dict, TypeError for null, a number or a boolean.  (A list or a
\* string answers False: none that is sent holds a key name.)
Key(v, key) == v.j = "obj" /\ key \in DOMAIN v.o
NoContainer(v) == v.j \in {"null", "bool", "num"}

\* A JSON text is a sequence of tokens: the six punctuation marks and the
\* literals (a string, a number, true, false or null).
Mark(t) == [t |-> t]
Lit(v) == [t |-> "lit", v |-> v]
Tok(text, i) == IF i <= Len(text) THEN text[i].t ELSE "end"

\* json.loads: ok and the decoded value v, or ~ok where it raises
\* JSONDecodeError (a value is missing or cut short, a comma or a colon is
\* out of place, text follows the value).  Of two equal keys the later wins.
RECURSIVE ParseValue(_, _)
RECURSIVE ParseMembers(_, _, _)
RECURSIVE ParseElements(_, _, _)
ParseValue(text, i) ==
    CASE Tok(text, i) = "lit" -> [ok |-> TRUE, v |-> text[i].v, next |-> i + 1]
      [] Tok(text, i) = "{" ->
            IF Tok(text, i + 1) = "}"
            THEN [ok |-> TRUE, v |-> JObj(<<>>), next |-> i + 2]
            ELSE ParseMembers(text, i + 1, <<>>)
      [] Tok(text, i) = "[" ->
            IF Tok(text, i + 1) = "]"
            THEN [ok |-> TRUE, v |-> JArr(<<>>), next |-> i + 2]
            ELSE ParseElements(text, i + 1, <<>>)
      [] OTHER -> [ok |-> FALSE]
ParseMembers(text, i, acc) ==
    IF Tok(text, i) = "lit" /\ IsName(text[i].v) /\ Tok(text, i + 1) = ":"
    THEN LET r == ParseValue(text, i + 2)
         IN  IF ~r.ok THEN [ok |-> FALSE]
             ELSE LET acc1 == (text[i].v.name :> r.v) @@ acc
                  IN  CASE Tok(text, r.next) = "," ->
                              ParseMembers(text, r.next + 1, acc1)
                        [] Tok(text, r.next) = "}" ->
                              [ok |-> TRUE, v |-> JObj(acc1), next |-> r.next + 1]
                        [] OTHER -> [ok |-> FALSE]
    ELSE [ok |-> FALSE]
ParseElements(text, i, acc) ==
    LET r == ParseValue(text, i)
    IN  IF ~r.ok THEN [ok |-> FALSE]
        ELSE CASE Tok(text, r.next) = "," ->
                    ParseElements(text, r.next + 1, Append(acc, r.v))
               [] Tok(text, r.next) = "]" ->
                    [ok |-> TRUE, v |-> JArr(Append(acc, r.v)), next |-> r.next + 1]
               [] OTHER -> [ok |-> FALSE]

Loads(text) ==
    LET r == ParseValue(text, 1)
    IN  IF r.ok /\ r.next = Len(text) + 1 THEN r ELSE [ok |-> FALSE]

\* json.dumps: the text of a value.
RECURSIVE InOrder(_)
InOrder(S) ==
    IF S = {} THEN <<>>
    ELSE LET x == CHOOSE y \in S : TRUE IN <<x>> \o InOrder(S \ {x})
RECURSIVE Dumps(_)
RECURSIVE DumpMembers(_, _)
RECURSIVE DumpElements(_)
Dumps(v) ==
    CASE v.j = "obj" ->
            <<Mark("{")>> \o DumpMembers(v.o, InOrder(DOMAIN v.o)) \o <<Mark("}")>>
      [] v.j = "arr" -> <<Mark("[")>> \o DumpElements(v.a) \o <<Mark("]")>>
      [] OTHER -> <<Lit(v)>>
DumpMembers(o, keys) ==
    IF keys = <<>> THEN <<>>
    ELSE <<Lit(JName(Head(keys))), Mark(":")>> \o Dumps(o[Head(keys)])
         \o (IF Tail(keys) = <<>> THEN <<>>
             ELSE <<Mark(",")>> \o DumpMembers(o, Tail(keys)))
DumpElements(a) ==
    IF a = <<>> THEN <<>>
    ELSE Dumps(Head(a))
         \o (IF Tail(a) = <<>> THEN <<>> ELSE <<Mark(",")>> \o DumpElements(Tail(a)))

-----------------------------------------------------------------------------
(* Extraction *)

\* An object with the keys of keys, the value of key k being value[k].
Object(keys, value) == JObj([k \in keys |-> value[k]])
ErrorObject(message) == JObj("error" :> JName(message))

\* length.pt and length.mm: floats.
InPt(emu) == JRat(emu, 12700)
InMm(emu) == JRat(emu, 36000)

\* _extract_core_properties: the text-valued properties it reads.  (The
\* dates, revision and last_modified_by of the template are left out.)
ExtractedCoreProperties ==
    {"author", "title", "subject", "keywords", "comments", "category",
     "content_status", "identifier", "language"}
extract_core_properties_of(doc) ==
    Object(ExtractedCoreProperties,
           [n \in ExtractedCoreProperties |-> JStr(doc.core_properties[n])])

\* _extract_section_properties: a margin or distance is written only when
\* it is not zero.
SectionInfo(section, i) ==
    LET margin == [k \in {"top", "bottom", "left", "right", "gutter"} |->
                      CASE k = "top" -> section.top_margin
                        [] k = "bottom" -> section.bottom_margin
                        [] k = "left" -> section.left_margin
                        [] k = "right" -> section.right_margin
                        [] k = "gutter" -> section.gutter]
        value == [k \in {"top_mm", "bottom_mm", "left_mm", "right_mm", "gutter_mm",
                         "top_pt", "bottom_pt", "left_pt", "right_pt", "gutter_pt"} |->
                     CASE k = "top_mm" -> InMm(margin["top"])
                       [] k = "top_pt" -> InPt(margin["top"])
                       [] k = "bottom_mm" -> InMm(margin["bottom"])
                       [] k = "bottom_pt" -> InPt(margin["bottom"])
                       [] k = "left_mm" -> InMm(margin["left"])
                       [] k = "left_pt" -> InPt(margin["left"])
                       [] k = "right_mm" -> InMm(margin["right"])
                       [] k = "right_pt" -> InPt(margin["right"])
                       [] k = "gutter_mm" -> InMm(margin["gutter"])
                       [] k = "gutter_pt" -> InPt(margin["gutter"])]
        distance == [k \in {"header_distance_mm", "footer_distance_mm"} |->
                        IF k = "header_distance_mm"
                        THEN InMm(section.header_distance)
                        ELSE InMm(section.footer_distance)]
    IN  JObj([k \in {"index", "page_width", "page_height", "orientation",
                     "margins", "header_footer", "different_first_page"} |->
                CASE k = "index" -> JNum(i)
                  [] k = "page_width" ->
                        IF section.page_width # 0 THEN InPt(section.page_width)
                        ELSE JNull
                  [] k = "page_height" ->
                        IF section.page_height # 0 THEN InPt(section.page_height)
                        ELSE JNull
                  [] k = "orientation" ->
                        IF section.orientation = "landscape"
                        THEN JName("landscape") ELSE JName("portrait")
                  [] k = "margins" ->
                        Object({x \in DOMAIN value : value[x].n # 0}, value)
                  [] k = "header_footer" ->
                        Object({x \in DOMAIN distance : distance[x].n # 0}, distance)
                  [] k = "different_first_page" ->
                        JBool(section.different_first_page)])
extract_section_properties_of(doc) ==
    JArr([i \in 1..Len(doc.sections) |-> SectionInfo(doc.sections[i], i - 1)])

\* str(pf.alignment) of a paragraph alignment.
AlignmentText(a) ==
    CASE a = "LEFT" -> <<"L", "E", "F", "T", " ", "(", "0", ")">>
      [] a = "CENTER" -> <<"C", "E", "N", "T", "E", "R", " ", "(", "1", ")">>
      [] a = "RIGHT" -> <<"R", "I", "G", "H", "T", " ", "(", "2", ")">>
      [] a = "JUSTIFY" -> <<"J", "U", "S", "T", "I", "F", "Y", " ", "(", "3", ")">>

\* The used styles without the loop over doc.tables.
UsedStylesOfBody(doc) ==
    {doc.body[j].style : j \in {m \in 1..Len(doc.body) : doc.body[m].k = "p"}}

\* The names of the styles of the paragraphs in doc.paragraphs and in the
\* cells of doc.tables.
UsedStyles(doc) ==
    {doc.body[j].style : j \in {m \in 1..Len(doc.body) : doc.body[m].k = "p"}}
    \cup UNION {UNION {UNION {{doc.body[j].rows[r][c].paras[q].style :
                                  q \in 1..Len(doc.body[j].rows[r][c].paras)} :
                               c \in 1..Len(doc.body[j].rows[r])} :
                        r \in 1..Len(doc.body[j].rows)} :
                 j \in {m \in 1..Len(doc.body) : doc.body[m].k = "t"}}

\* The font with bold and italic noted whenever they are set, False too.
FontInfoOfAllSet(font) ==
    LET value == [k \in {"bold", "italic"} |->
                     IF font[k] # None THEN JBool(font[k][1]) ELSE JNull]
    IN  Object({k \in DOMAIN value : value[k] # JNull}, value)

\* What _extract_styles_info notes of a style's font: only what is set and
\* not False; WD_ALIGN_PARAGRAPH.LEFT is 0 and so, like an unset alignment,
\* is not written.
FontInfo(font) ==
    LET value == [k \in {"name", "size_pt", "bold", "italic", "underline", "color"} |->
                     CASE k = "name" ->
                            IF font.name # None THEN JName(font.name[1]) ELSE JNull
                       [] k = "size_pt" ->
                            IF font.size # None /\ font.size[1] # 0
                            THEN InPt(font.size[1]) ELSE JNull
                       [] k = "bold" ->
                            IF font.bold = Some(TRUE) THEN JBool(TRUE) ELSE JNull
                       [] k = "italic" ->
                            IF font.italic = Some(TRUE) THEN JBool(TRUE) ELSE JNull
                       [] k = "underline" ->
                            IF font.underline = Some(TRUE)
                            THEN JStr(<<"T", "r", "u", "e">>) ELSE JNull
                       [] k = "color" ->
                            IF font.color # None THEN JStr(font.color[1]) ELSE JNull]
    IN  Object({k \in DOMAIN value : value[k] # JNull /\ (k = "name" => font.name[1] # "")},
               value)
FormatInfo(pf) ==
    LET set(k) == pf[k] # None /\ pf[k][1] # 0
        value == [k \in {"alignment", "line_spacing", "space_before_pt",
                         "space_after_pt", "first_line_indent_mm",
                         "left_indent_mm", "right_indent_mm"} |->
                     CASE k = "alignment" ->
                            IF pf.alignment # None /\ pf.alignment[1] # "LEFT"
                            THEN JStr(AlignmentText(pf.alignment[1])) ELSE JNull
                       [] k = "line_spacing" ->
                            IF set("line_spacing") /\ pf.line_spacing[1] # 240
                            THEN JRat(pf.line_spacing[1], 240) ELSE JNull
                       [] k = "space_before_pt" ->
                            IF set("space_before") THEN InPt(pf.space_before[1])
                            ELSE JNull
                       [] k = "space_after_pt" ->
                            IF set("space_after") THEN InPt(pf.space_after[1])
                            ELSE JNull
                       [] k = "first_line_indent_mm" ->
                            IF set("first_line_indent")
                            THEN InMm(pf.first_line_indent[1]) ELSE JNull
                       [] k = "left_indent_mm" ->
                            IF set("left_indent") THEN InMm(pf.left_indent[1])
                            ELSE JNull
                       [] k = "right_indent_mm" ->
                            IF set("right_indent") THEN InMm(pf.right_indent[1])
                            ELSE JNull]
    IN  Object({k \in DOMAIN value : value[k] # JNull}, value)

\* A numbering style has no font, and only a paragraph or table style has a
\* paragraph format: the AttributeError is swallowed and the part left out.
HasFont(style) == style.type \in {"paragraph", "table", "character"}
HasFormat(style) == style.type \in {"paragraph", "table"}

StyleInfo(name, style) ==
    LET font_info == FontInfo(style.font)
        para_info == FormatInfo(style.pf)
        value == [k \in {"style_id", "font", "paragraph_format"} |->
                     CASE k = "style_id" -> JName(style.style_id)
                       [] k = "font" -> font_info
                       [] k = "paragraph_format" -> para_info]
    IN  Object({k \in DOMAIN value :
                    CASE k = "style_id" -> style.style_id # name
                      [] k = "font" -> HasFont(style) /\ Truthy(font_info)
                      [] k = "paragraph_format" ->
                            HasFormat(style) /\ Truthy(para_info)},
               value)

StyleCategory(type) ==
    CASE type = "paragraph" -> "paragraph_styles"
      [] type = "character" -> "character_styles"
      [] type = "table" -> "table_styles"
      [] type = "numbering" -> "list_styles"

\* _extract_styles_info(doc, only_used): hidden styles are skipped, and with
\* only_used the styles no paragraph uses.
extract_styles_info_of(doc, only_used) ==
    LET shown == {n \in DOMAIN doc.styles :
                     /\ ~doc.styles[n].hidden
                     /\ only_used => n \in UsedStyles(doc)}
    IN  JObj([c \in {"paragraph_styles", "character_styles", "table_styles",
                     "list_styles"} |->
                JObj([n \in {m \in shown : StyleCategory(doc.styles[m].type) = c} |->
                         StyleInfo(n, doc.styles[n])])])

\* cell.text: the texts of the cell's paragraphs, a newline between them.
RECURSIVE CellText(_)
CellText(paras) ==
    IF paras = <<>> THEN <<>>
    ELSE IF Len(paras) = 1 THEN ParagraphText(paras[1])
    ELSE ParagraphText(paras[1]) \o <<"\n">> \o CellText(Tail(paras))

\* "text[:n] + '...' if len(text) > n else text".
Preview(text, n) ==
    IF Len(text) > n THEN Slice(text, 0, n) \o <<".", ".", ".">> ELSE text

\* _extract_tables_info: for every row of table.rows, what row.cells shows.
TableInfo(t, i) ==
    JObj([k \in {"index", "rows", "columns", "cells"} |->
            CASE k = "index" -> JNum(i)
              [] k = "rows" -> JNum(Len(t.rows))
              [] k = "columns" -> JNum(t.cols)
              [] k = "cells" ->
                    JArr([ri \in 1..Len(t.rows) |->
                            JArr([c \in 1..Len(RowCells(t, ri)) |->
                                    JObj([x \in {"row", "col", "text"} |->
                                            CASE x = "row" -> JNum(ri - 1)
                                              [] x = "col" -> JNum(c - 1)
                                              [] x = "text" ->
                                                    LET at == RowCells(t, ri)[c]
                                                    IN  JStr(Preview(CellText(
                                                            t.rows[at[1]][at[2]].paras),
                                                            100))])])])])

\* The parameters extract_document_parameters gathers.  (The timestamp of
\* the extraction, the numbering definitions and the headers and footers are
\* left out; the server writes no custom property and no document variable,
\* and the template has none.)
DocumentParameters(doc, source_file, all_styles) ==
    JObj([k \in {"source_file", "core_properties", "custom_properties",
                 "document_variables", "sections", "styles", "tables",
                 "paragraphs_count", "tables_count"} |->
            CASE k = "source_file" ->
                    IF source_file = None THEN JNull ELSE JName(source_file[1])
              [] k = "core_properties" -> extract_core_properties_of(doc)
              [] k = "custom_properties" -> JObj(<<>>)
              [] k = "document_variables" -> JObj(<<>>)
              [] k = "sections" -> extract_section_properties_of(doc)
              [] k = "styles" -> extract_styles_info_of(doc, ~all_styles)
              [] k = "tables" ->
                    JArr([i \in 1..Len(Tables(doc)) |-> TableInfo(Tables(doc)[i], i - 1)])
              [] k = "paragraphs_count" -> JNum(Len(Paragraphs(doc)))
              [] k = "tables_count" -> JNum(Len(Tables(doc)))])

\* text.strip() is not empty.
Whitespace == {" ", "\n", "\t"}
NotBlank(text) == \E i \in 1..Len(text) : text[i] \notin Whitespace

\* "para.style.name.startswith('Heading')".  (Of the style names in use only
\* the heading styles start so.)
IsHeadingName(name) == name \in {HeadingStyle(level) : level \in 1..9}

\* The members of a set of positions i..n, in ascending order.
RECURSIVE Ascending(_, _, _)
Ascending(i, n, S) ==
    IF i > n THEN <<>>
    ELSE (IF i \in S THEN <<i>> ELSE <<>>) \o Ascending(i + 1, n, S)

DocumentStructure(doc) ==
    LET paras == Paragraphs(doc)
        hs == Ascending(1, Len(paras),
                        {i \in 1..Len(paras) : IsHeadingName(paras[i].style)})
        ps == Ascending(1, Len(paras),
                        {i \in 1..Len(paras) :
                            /\ ~IsHeadingName(paras[i].style)
                            /\ NotBlank(ParagraphText(paras[i]))})
    IN  JObj([k \in {"headings", "paragraphs", "tables_count"} |->
            CASE k = "headings" ->
                    JArr([n \in 1..Len(hs) |->
                            JObj([x \in {"index", "level", "text"} |->
                                    CASE x = "index" -> JNum(hs[n] - 1)
                                      [] x = "level" -> JName(paras[hs[n]].style)
                                      [] x = "text" ->
                                            JStr(Preview(ParagraphText(paras[hs[n]]),
                                                         100))])])
              [] k = "paragraphs" ->
                    JArr([n \in 1..Len(ps) |->
                            JObj([x \in {"index", "style", "text_preview"} |->
                                    CASE x = "index" -> JNum(ps[n] - 1)
                                      [] x = "style" -> JName(paras[ps[n]].style)
                                      [] x = "text_preview" ->
                                            JStr(Preview(ParagraphText(paras[ps[n]]),
                                                         50))])])
              [] k = "tables_count" -> JNum(Len(Tables(doc)))])

\* The frame of the reading operations: "if filename:" a missing file is an
\* error and an existing one is read; "elif current_doc:" the current
\* document is read; else there is nothing to read.  The answer is a JSON
\* text.
NoDocumentLoaded == "No document loaded."
Read(Value(_), nothing) ==
    LET r == request[1]
    IN  IF TruthyStr(r.filename)
        THEN IF ~Exists(r.filename[1])
             THEN Answer([json |-> Dumps(ErrorObject("File not found"))])
             ELSE Answer([json |-> Dumps(Value(storage[r.filename[1]][1]))])
        ELSE IF current_doc # None
        THEN Answer([json |-> Dumps(Value(current_doc[1]))])
        ELSE Answer([json |-> Dumps(ErrorObject(nothing))])

extract_document_parameters ==
    /\ Pending("extract_document_parameters")
    /\ LET r == request[1]
           Value(doc) ==
               DocumentParameters(doc,
                   IF TruthyStr(r.filename) THEN r.filename ELSE current_doc_path,
                   r.all_styles)
       IN  Read(Value,
                "No document loaded. Provide a filename or create a document first.")

extract_core_properties ==
    /\ Pending("extract_core_properties")
    /\ Read(extract_core_properties_of, NoDocumentLoaded)

\* _extract_custom_properties and _extract_document_variables find nothing:
\* the document part has no custom properties, the settings no variable.
extract_custom_properties ==
    /\ Pending("extract_custom_properties")
    /\ LET Value(doc) == JObj(<<>>) IN Read(Value, NoDocumentLoaded)

extract_document_variables ==
    /\ Pending("extract_document_variables")
    /\ LET Value(doc) == JObj(<<>>) IN Read(Value, NoDocumentLoaded)

extract_section_properties ==
    /\ Pending("extract_section_properties")
    /\ Read(extract_section_properties_of, NoDocumentLoaded)

extract_styles_info ==
    /\ Pending("extract_styles_info")
    /\ LET Value(doc) == extract_styles_info_of(doc, ~request[1].all_styles)
       IN  Read(Value, NoDocumentLoaded)

\* The handler keeping the document it has loaded from the file.
get_document_structure_loading ==
    /\ Pending("get_document_structure")
    /\ response' = Some([json |-> Dumps(ErrorObject(NoDocumentLoaded))])
    /\ pre' = Some(Snapshot)
    /\ current_doc' = IF Loaded(request[1].filename)
                      THEN storage[request[1].filename[1]] ELSE current_doc
    /\ UNCHANGED <<current_doc_path, storage, request>>

get_document_structure ==
    /\ Pending("get_document_structure")
    /\ Read(DocumentStructure, NoDocumentLoaded)

-----------------------------------------------------------------------------
(* Templates: loading one, applying extracted parameters, core properties *)

load_template ==
    /\ Pending("load_template")
    /\ LET r == request[1]
       IN  IF ~Exists(r.filename)
           THEN Answer([msg |-> "Error: File not found", filename |-> r.filename])
           ELSE /\ response' = Some([msg |-> "Template loaded",
                                     filename |-> r.filename])
                /\ pre' = Some(Snapshot)
                /\ current_doc' = storage[r.filename]
                /\ current_doc_path' = Some(r.filename)
                /\ UNCHANGED <<storage, request>>

\* int(x) of the fraction n/d: towards zero.
Trunc(n, d) == IF n >= 0 THEN n \div d ELSE -((-n) \div d)

\* Pt(v) and Mm(v) of a decoded value, per the EMU of the unit: a number
\* gives a length and True counts as 1; None is a TypeError, and a text that
\* is not a number a ValueError.  (A text of digits is not sent.)
Length(v, per) ==
    CASE v.j = "num" ->
            [ok |-> TRUE,
             emu |-> IF v.d = per THEN v.n ELSE Trunc(v.n * per, v.d)]
      [] v.j = "bool" -> [ok |-> TRUE, emu |-> IF v.b THEN per ELSE 0]
      [] OTHER -> [ok |-> FALSE, emu |-> 0]

\* What is read back from an attribute kept in twips, and from a font size,
\* kept in half-points.
StoredSigned(emu) == IF emu >= 0 THEN StoredInTwips(emu) ELSE -StoredInTwips(-emu)
StoredInHalfPoints(emu) == (emu \div 6350) * 6350

\* One assignment of apply_template_parameters after another on a section, a
\* style or the core properties, up to the first that raises.  A step names
\* what it assigns (k), the decoded value (v) and, for a length, the field,
\* the unit and whether the attribute takes a negative value.
Step(k, v) == [k |-> k, v |-> v]
LengthStep(field, v, per, signed) ==
    [k |-> "length", field |-> field, v |-> v, per |-> per, signed |-> signed]
Raises == <<[k |-> "raise"]>>

\* parse_alignment: None for a value that is not truthy, AttributeError for
\* one that is but has no upper(); the member found in the text, CENTER
\* looked for first.
AlignmentMembers == <<"CENTER", "LEFT", "RIGHT", "JUSTIFY">>
MemberText(a) ==
    CASE a = "CENTER" -> <<"C", "E", "N", "T", "E", "R">>
      [] a = "LEFT" -> <<"L", "E", "F", "T">>
      [] a = "RIGHT" -> <<"R", "I", "G", "H", "T">>
      [] a = "JUSTIFY" -> <<"J", "U", "S", "T", "I", "F", "Y">>
parse_alignment(text) ==
    LET found == {n \in 1..Len(AlignmentMembers) :
                     Contains(Upper(text), MemberText(AlignmentMembers[n]))}
    IN  IF found = {} THEN None
        ELSE Some(AlignmentMembers[CHOOSE n \in found : \A m \in found : n <= m])

\* The assignment of one step to rec (a section, or a style with its font
\* and paragraph format): the record after it and whether it raised.
Assign(rec, s) ==
    LET kept == [rec |-> rec, raised |-> FALSE]
        failed == [rec |-> rec, raised |-> TRUE]
        done(r) == [rec |-> r, raised |-> FALSE]
    IN  CASE s.k = "raise" -> failed
          [] s.k = "length" ->
                LET l == Length(s.v, s.per)
                IN  IF ~l.ok \/ (l.emu < 0 /\ ~s.signed) THEN failed
                    ELSE done([rec EXCEPT ![s.field] = StoredSigned(l.emu)])
          [] s.k = "pf" ->
                LET l == Length(s.v, s.per)
                IN  IF ~l.ok \/ (l.emu < 0 /\ ~s.signed) THEN failed
                    ELSE done([rec EXCEPT !.pf[s.field] = Some(StoredSigned(l.emu))])
          [] s.k = "orientation" ->
                IF s.v = JName("landscape")
                THEN done([rec EXCEPT !.orientation = "landscape"]) ELSE kept
          [] s.k = "name" ->
                IF s.v.j = "null" THEN done([rec EXCEPT !.font.name = None])
                ELSE IF s.v.j = "str"
                THEN done([rec EXCEPT !.font.name =
                              Some(IF IsName(s.v) THEN s.v.name ELSE s.v.s)])
                ELSE failed
          [] s.k = "size_pt" ->
                LET l == Length(s.v, 12700)
                IN  IF ~l.ok \/ l.emu < 0 THEN failed
                    ELSE done([rec EXCEPT !.font.size =
                                  Some(StoredInHalfPoints(l.emu))])
          [] s.k \in {"bold", "italic"} ->
                LET flag == CASE s.v.j = "null" -> <<None>>
                              [] s.v.j = "bool" -> <<Some(s.v.b)>>
                              [] s.v.j = "num" /\ s.v.n = 0 -> <<Some(FALSE)>>
                              [] s.v.j = "num" /\ s.v.n = s.v.d -> <<Some(TRUE)>>
                              [] OTHER -> <<>>
                IN  IF flag = <<>> THEN failed
                    ELSE done([rec EXCEPT !.font[s.k] = flag[1]])
          [] s.k = "underline" ->
                IF s.v.j = "bool" THEN done([rec EXCEPT !.font.underline = Some(s.v.b)])
                ELSE IF IsText(s.v)
                THEN done([rec EXCEPT !.font.underline =
                              Some(Lower(s.v.s) = <<"t", "r", "u", "e">>)])
                ELSE kept
          [] s.k = "color" ->
                IF IsText(s.v) /\ ParseColor(s.v.s) # None
                THEN done([rec EXCEPT !.font.color = ParseColor(s.v.s)])
                ELSE kept
          [] s.k = "alignment" ->
                IF ~Truthy(s.v) THEN kept
                ELSE IF ~IsText(s.v) THEN failed
                ELSE LET a == parse_alignment(s.v.s)
                     IN  IF a = None \/ a = Some("LEFT") THEN kept
                         ELSE done([rec EXCEPT !.pf.alignment = a])
          [] s.k = "line_spacing" ->
                LET l == Length(s.v, 152400)
                IN  IF s.v.j = "null" THEN done([rec EXCEPT !.pf.line_spacing = None])
                    ELSE IF ~l.ok THEN failed
                    ELSE done([rec EXCEPT !.pf.line_spacing =
                                  Some(StoredSigned(l.emu) \div 635)])

RECURSIVE AssignAll(_, _)
AssignAll(rec, steps) ==
    IF steps = <<>> THEN [rec |-> rec, raised |-> FALSE]
    ELSE LET r == Assign(rec, Head(steps))
         IN  IF r.raised THEN r ELSE AssignAll(r.rec, Tail(steps))

\* The step for key of o, if "key in o".
When(o, key, step) == IF Key(o, key) THEN <<step>> ELSE <<>>

\* Lines 1609-1628: the margins, the page size and the orientation of one
\* section.  Margins left and right, and the page size, take no negative
\* value.
SectionSteps(sp) ==
    IF NoContainer(sp) THEN Raises
    ELSE LET m == sp.o["margins"]
             side(key, field, signed) ==
                 When(m, key, LengthStep(field, m.o[key], 36000, signed))
         IN  (IF ~Key(sp, "margins") THEN <<>>
              ELSE IF NoContainer(m) THEN Raises
              ELSE side("top_mm", "top_margin", TRUE)
                   \o side("bottom_mm", "bottom_margin", TRUE)
                   \o side("left_mm", "left_margin", FALSE)
                   \o side("right_mm", "right_margin", FALSE))
             \o (IF Key(sp, "page_width") /\ Key(sp, "page_height")
                 THEN <<LengthStep("page_width", sp.o["page_width"], 12700, FALSE),
                        LengthStep("page_height", sp.o["page_height"], 12700, FALSE)>>
                 ELSE <<>>)
             \o When(sp, "orientation", Step("orientation", sp.o["orientation"]))

\* "for i, section_params in enumerate(params['sections'])", entry i going
\* to section i where the new document has one: the sections after it and
\* whether an assignment raised.  Only a list has entries that can apply.
RECURSIVE ApplySections(_, _, _)
ApplySections(sections, entries, i) ==
    IF i > Len(entries) \/ i > Len(sections)
    THEN [sections |-> sections, raised |-> FALSE]
    ELSE LET r == AssignAll(sections[i], SectionSteps(entries[i]))
             out == [sections EXCEPT ![i] = r.rec]
         IN  IF r.raised THEN [sections |-> out, raised |-> TRUE]
             ELSE ApplySections(out, entries, i + 1)

\* Lines 1514-1564 for one style and its entry of the snapshot.
StyleSteps(style, info) ==
    IF NoContainer(info) THEN Raises
    ELSE LET f == info.o["font"]
             p == info.o["paragraph_format"]
             font(key) == When(f, key, Step(key, f.o[key]))
             length(key, field, per, signed) ==
                 When(p, key, [k |-> "pf", field |-> field, v |-> p.o[key],
                               per |-> per, signed |-> signed])
         IN  (IF ~Key(info, "font") THEN <<>>
              ELSE IF ~HasFont(style) \/ NoContainer(f) THEN Raises
              ELSE font("name") \o font("size_pt") \o font("bold")
                   \o font("italic") \o font("underline") \o font("color"))
             \o (IF ~Key(info, "paragraph_format") THEN <<>>
                 ELSE IF ~HasFormat(style) \/ NoContainer(p) THEN Raises
                 ELSE When(p, "alignment", Step("alignment", p.o["alignment"]))
                      \o When(p, "line_spacing",
                              Step("line_spacing", p.o["line_spacing"]))
                      \o length("space_before_pt", "space_before", 12700, FALSE)
                      \o length("space_after_pt", "space_after", 12700, FALSE)
                      \o length("first_line_indent_mm", "first_line_indent",
                                36000, TRUE)
                      \o length("left_indent_mm", "left_indent", 36000, TRUE)
                      \o length("right_indent_mm", "right_indent", 36000, TRUE))

\* _apply_styles_from_params(doc, styles_params): the styles after it, the
\* count it returns, and whether it raised (outside the try of the loop).
\* The entries are taken in the order of the text.  An entry whose key finds
\* no style is passed over; an entry that raises keeps what was assigned
\* before and is not counted; any other entry is counted.
Counted(styles, name, r, count) ==
    [styles |-> [styles EXCEPT ![name] = r.rec],
     applied_count |-> IF r.raised THEN count ELSE count + 1,
     raised |-> FALSE]
EntryApplied(acc, at, info) ==
    IF at = None THEN acc
    ELSE Counted(acc.styles, at[1],
                 AssignAll(acc.styles[at[1]], StyleSteps(acc.styles[at[1]], info)),
                 acc.applied_count)
RECURSIVE EachStyle(_, _, _)
EachStyle(acc, entries, keys) ==
    IF keys = <<>> THEN acc
    ELSE EachStyle(EntryApplied(acc, StyleNamed(acc.styles, Head(keys)),
                                entries[Head(keys)]),
                   entries, Tail(keys))
apply_styles_from_params(styles, sp) ==
    IF NoContainer(sp) \/ (Key(sp, "paragraph_styles")
                           /\ sp.o["paragraph_styles"].j # "obj")
    THEN [styles |-> styles, applied_count |-> 0, raised |-> TRUE]
    ELSE IF ~Key(sp, "paragraph_styles")
    THEN [styles |-> styles, applied_count |-> 0, raised |-> FALSE]
    ELSE EachStyle([styles |-> styles, applied_count |-> 0, raised |-> FALSE],
                   sp.o["paragraph_styles"].o,
                   InOrder(DOMAIN sp.o["paragraph_styles"].o))

\* str(value) of what is assigned to a core property.  (A list, a dict, a
\* fraction or a name is not sent as one.)
RECURSIVE Decimal(_)
Decimal(n) ==
    LET digit == <<"0", "1", "2", "3", "4", "5", "6", "7", "8", "9">>
    IN  IF n < 0 THEN <<"-">> \o Decimal(-n)
        ELSE IF n < 10 THEN <<digit[n + 1]>>
        ELSE Decimal(n \div 10) \o <<digit[(n % 10) + 1]>>
PyStr(v) ==
    CASE IsText(v) -> v.s
      [] v.j = "null" -> <<"N", "o", "n", "e">>
      [] v.j = "bool" -> IF v.b THEN <<"T", "r", "u", "e">>
                         ELSE <<"F", "a", "l", "s", "e">>
      [] v.j = "num" /\ v.d = 1 -> Decimal(v.n)
      [] OTHER -> <<>>

\* CoreProperties refuses a text of more than 255 characters (ValueError).
RECURSIVE SetProperties(_, _, _)
SetProperties(props, cp, names) ==
    IF names = <<>> THEN [props |-> props, raised |-> FALSE]
    ELSE IF ~Key(cp, Head(names)) THEN SetProperties(props, cp, Tail(names))
    ELSE LET text == PyStr(cp.o[Head(names)])
         IN  IF Len(text) > 255 THEN [props |-> props, raised |-> TRUE]
             ELSE SetProperties([props EXCEPT ![Head(names)] = text], cp,
                                Tail(names))

AppliedProperties ==
    <<"author", "title", "subject", "keywords", "comments", "category">>

\* Lines 1600-1650 on the new document, stage after stage: the document as
\* the call leaves it, the number of styles applied, and whether an exception
\* ended the call.
Outcome(doc, applied, raised) ==
    [doc |-> doc, applied |-> applied, raised |-> raised]
WithSections(doc, a) == Outcome([doc EXCEPT !.sections = a.sections], 0, a.raised)
WithStyles(doc, b) ==
    Outcome([doc EXCEPT !.styles = b.styles], b.applied_count, b.raised)
WithProperties(out, c) ==
    Outcome([out.doc EXCEPT !.core_properties = c.props], out.applied, c.raised)

SectionsApplied(doc, params) ==
    IF ~Key(params, "sections") THEN Outcome(doc, 0, FALSE)
    ELSE IF params.o["sections"].j # "arr"
    THEN Outcome(doc, 0, NoContainer(params.o["sections"]))
    ELSE WithSections(doc, ApplySections(doc.sections, params.o["sections"].a, 1))
StylesApplied(out, params) ==
    IF out.raised \/ ~Key(params, "styles") THEN out
    ELSE WithStyles(out.doc,
                    apply_styles_from_params(out.doc.styles, params.o["styles"]))
PropertiesApplied(out, params) ==
    IF out.raised \/ ~Key(params, "core_properties") THEN out
    ELSE IF NoContainer(params.o["core_properties"])
    THEN Outcome(out.doc, out.applied, TRUE)
    ELSE WithProperties(out,
            SetProperties(out.doc.core_properties, params.o["core_properties"],
                          AppliedProperties))
ApplyParameters(doc, params) ==
    IF NoContainer(params) THEN Outcome(doc, 0, TRUE)
    ELSE PropertiesApplied(StylesApplied(SectionsApplied(doc, params), params),
                           params)

DefaultPath == "new_document.docx"

\* The parameters applied to the document that was current, body and all.
AppliedInPlace(out, path) ==
    /\ response' =
          IF out.raised THEN Some(Raise("exception"))
          ELSE Some([msg |-> "Created new document with template parameters",
                     styles_applied |-> out.applied,
                     current_doc_path |-> path])
    /\ pre' = Some(Snapshot)
    /\ current_doc' = Some(IF current_doc = None THEN out.doc
                           ELSE [out.doc EXCEPT !.body = current_doc[1].body])
    /\ current_doc_path' = Some(path)
    /\ UNCHANGED <<storage, request>>

\* The call from "current_doc = Document()" on: the new document is current
\* whatever becomes of the parameters.
Applied(out, path) ==
    /\ response' =
          IF out.raised THEN Some(Raise("exception"))
          ELSE Some([msg |-> "Created new document with template parameters",
                     styles_applied |-> out.applied,
                     current_doc_path |-> path])
    /\ pre' = Some(Snapshot)
    /\ current_doc' = Some(out.doc)
    /\ current_doc_path' = Some(path)
    /\ UNCHANGED <<storage, request>>
\* "current_doc = Document()" ahead of json.loads.
DecodedAfterCreating(r, params) ==
    IF ~params.ok
    THEN /\ response' = Some([msg |-> "Error parsing JSON"])
         /\ pre' = Some(Snapshot)
         /\ current_doc' = Some(NewDocument)
         /\ UNCHANGED <<current_doc_path, storage, request>>
    ELSE Applied(ApplyParameters(NewDocument, params.v),
                 IF TruthyStr(r.output_filename) THEN r.output_filename[1]
                 ELSE DefaultPath)

\* json.loads first: a text it refuses ends the call before anything is made.
Decoded(r, params) ==
    IF ~params.ok THEN Answer([msg |-> "Error parsing JSON"])
    ELSE Applied(ApplyParameters(NewDocument, params.v),
                 IF TruthyStr(r.output_filename) THEN r.output_filename[1]
                 ELSE DefaultPath)

apply_template_parameters ==
    /\ Pending("apply_template_parameters")
    /\ Decoded(request[1], Loads(request[1].parameters_json))

NoActiveDocumentOrTemplate ==
    [msg |-> "No active document. Call create_document or load_template first."]

\* The names set_core_property accepts.  CoreProperties has no property
\* 'status': setattr leaves an attribute on the proxy object of the call, and
\* nothing in the document.
ValidProperties ==
    {"author", "title", "subject", "keywords", "comments", "category",
     "content_status", "identifier", "language", "status", "version"}

set_core_property ==
    /\ Pending("set_core_property")
    /\ LET r == request[1]
       IN  IF current_doc = None THEN Answer(NoActiveDocumentOrTemplate)
           ELSE IF r.property_name \notin ValidProperties
           THEN Answer([msg |-> "Invalid property."])
           ELSE IF r.property_name # "status" /\ Len(r.value) > 255
           THEN Answer(Raise("ValueError"))
           ELSE Change(IF r.property_name = "status" THEN current_doc[1]
                       ELSE [current_doc[1] EXCEPT
                               !.core_properties[r.property_name] = r.value],
                       [msg |-> "Set property",
                        property_name |-> r.property_name, value |-> r.value])

\* A handler that keeps the value, in the document's comments, and answers as
\* set_core_property does.
set_custom_property_kept ==
    /\ Pending("set_custom_property")
    /\ IF current_doc = None THEN Answer(NoActiveDocumentOrTemplate)
       ELSE Change([current_doc[1] EXCEPT
                      !.core_properties["comments"] = request[1].value],
                   [msg |-> "Set property",
                    property_name |-> request[1].property_name])

\* The handler without its first lines, "if not current_doc: return ...".
set_custom_property_unguarded ==
    /\ Pending("set_custom_property")
    /\ \E msg \in {"Custom property noted.", "Error setting custom property"} :
           Answer([msg |-> msg, property_name |-> request[1].property_name])

\* The custom properties part: a document part without the attribute
\* custom_properties ends in the except branch, one with it in the note;
\* neither writes anything.
set_custom_property ==
    /\ Pending("set_custom_property")
    /\ IF current_doc = None THEN Answer(NoActiveDocumentOrTemplate)
       ELSE \E msg \in {"Custom property noted.", "Error setting custom property"} :
                Answer([msg |-> msg, property_name |-> request[1].property_name])

-----------------------------------------------------------------------------
(* The tool calls a client sends *)

CreateRequests == {[op |-> "create_document", filename |-> "f1"]}

AddParagraph(texts) ==
    {[op |-> "add_paragraph", text |-> t, alignment |-> "JUSTIFY",
      indent_first_line |-> TRUE] : t \in texts}

AddTableRequests ==
    {[op |-> "add_table", rows |-> 1, cols |-> c, style |-> Some("Table Grid"),
      alignment |-> "CENTER"] : c \in 1..MaxCols}

\* The anchors a client names: a text, an index, both or neither.
Anchors ==
    {[target_text |-> t, target_paragraph_index |-> None] :
        t \in {None, Some(<<>>), Some(<<"a">>), Some(<<"b", "b">>)}}
    \cup {[target_text |-> None, target_paragraph_index |-> Some(i)] :
        i \in (-1)..MaxBlocks}
    \cup {[target_text |-> Some(<<"a">>), target_paragraph_index |-> Some(MaxBlocks)]}

Positions == {"before", "after", "above"}

\* Lists of different items, so that their order shows: a, ab, aba, ...
RECURSIVE Alternating(_)
Alternating(m) ==
    IF m = 0 THEN <<>>
    ELSE Append(Alternating(m - 1), IF m % 2 = 1 THEN <<"a">> ELSE <<"b">>)
ItemLists == {Alternating(m) : m \in 1..MaxItems}

InsertHeader(files, anchors, titles, styles) ==
    {[op |-> "insert_header_near_text", filename |-> f,
      target_text |-> a.target_text, header_title |-> t, position |-> pos,
      header_style |-> s, target_paragraph_index |-> a.target_paragraph_index] :
        f \in files, a \in anchors, t \in titles, pos \in Positions, s \in styles}

InsertLine(files, anchors, texts, styles) ==
    {[op |-> "insert_line_or_paragraph_near_text", filename |-> f,
      target_text |-> a.target_text, line_text |-> t, position |-> pos,
      line_style |-> s, target_paragraph_index |-> a.target_paragraph_index] :
        f \in files, a \in anchors, t \in texts, pos \in Positions, s \in styles}

InsertList(files, anchors, lists, bullets) ==
    {[op |-> "insert_numbered_list_near_text", filename |-> f,
      target_text |-> a.target_text, list_items |-> l, position |-> pos,
      target_paragraph_index |-> a.target_paragraph_index, bullet_type |-> b] :
        f \in files, a \in anchors, l \in lists, pos \in Positions, b \in bullets}

FirstParagraph == {[target_text |-> None, target_paragraph_index |-> Some(0)]}

InsertRequests ==
    InsertHeader({None}, Anchors, {Some(<<"b">>)}, {Some("Heading 1")})
    \cup InsertHeader({None}, FirstParagraph, {None, Some(<<"b">>)},
                      {Some("Heading 1"), Some("No Such Style")})
    \cup InsertLine({None}, Anchors, {Some(<<"b">>)}, {None})
    \cup InsertLine({None}, FirstParagraph, {Some(<<>>), Some(<<"b">>)},
                    {None, Some("Table Grid")})
    \cup InsertList({None}, Anchors, {Some(x) : x \in ItemLists}, {"bullet"})
    \cup InsertList({None}, FirstParagraph,
                    {None, Some(<<>>), Some(<<<<>>, <<"a">>>>)}, {"bullet", "number"})

AddFormattedTextRequests ==
    {[op |-> "add_formatted_text", paragraph_index |-> i, text |-> <<"b">>,
      bold |-> b, italic |-> FALSE, font_size |-> None, lang |-> None] :
        i \in {-1, MaxBlocks}, b \in BOOLEAN}

Overrides ==
    {[bold |-> Some(TRUE), italic |-> None, underline |-> None,
      color |-> Some(<<"F", "F", "0">>), font_size |-> None, font_name |-> None],
     [bold |-> None, italic |-> Some(FALSE), underline |-> Some(TRUE),
      color |-> Some(<<"#", "F", "F", "0", "0", "0", "0">>),
      font_size |-> Some(12), font_name |-> Some("Arial")]}

Format(files, indexes, starts, ends) ==
    {[op |-> "format_text", filename |-> f, paragraph_index |-> i,
      start_pos |-> st, end_pos |-> en, bold |-> o.bold, italic |-> o.italic,
      underline |-> o.underline, color |-> o.color, font_size |-> o.font_size,
      font_name |-> o.font_name] :
        f \in files, i \in indexes, st \in starts, en \in ends, o \in Overrides}

FormatWith(files, indexes, starts, ends, overrides) ==
    {r \in Format(files, indexes, starts, ends) :
        \E o \in overrides :
            /\ r.bold = o.bold /\ r.italic = o.italic /\ r.underline = o.underline
            /\ r.color = o.color /\ r.font_size = o.font_size
            /\ r.font_name = o.font_name}

FormatRequests ==
    Format({None}, {Some(x) : x \in 0..(MaxParas - 1)}, (-1)..MaxLen,
           {None} \cup {Some(x) : x \in 0..(MaxLen + 1)})
    \cup Format({None}, {None, Some(-1), Some(MaxParas)}, {0}, {None})

SetCellRequests ==
    {[op |-> "set_table_cell", table_index |-> 0, row_index |-> 0, col_index |-> c,
      text |-> t, alignment |-> None, bold |-> TRUE, italic |-> FALSE] :
        c \in 0..MaxCols, t \in {<<"a", "a", "a">>}}

MergeRequests ==
    {[op |-> "merge_table_cells", table_index |-> 0, start_row |-> 0,
      start_col |-> 0, end_row |-> 0, end_col |-> c] : c \in 1..MaxCols}

ReplaceRequests ==
    {[op |-> "search_and_replace", filename |-> None, find_text |-> x,
      replace_text |-> y] :
        x \in {Some(<<"a">>), Some(<<"a", "a">>)},
        y \in {None, Some(<<"a">>), Some(<<"b">>)}}
    \cup
    {[op |-> "search_and_replace", filename |-> None, find_text |-> x,
      replace_text |-> Some(<<"b">>)] : x \in {None, Some(<<>>)}}

DeleteRequests ==
    {[op |-> "delete_paragraph", filename |-> None, paragraph_index |-> i] :
        i \in {None} \cup {Some(x) : x \in (-1)..MaxBlocks}}

Replace(files, finds, replaces) ==
    {[op |-> "search_and_replace", filename |-> f, find_text |-> x,
      replace_text |-> y] : f \in files, x \in finds, y \in replaces}

Delete(files, indexes) ==
    {[op |-> "delete_paragraph", filename |-> f, paragraph_index |-> i] :
        f \in files, i \in indexes}

CustomStyles(files, names, bases) ==
    {[op |-> "create_custom_style", filename |-> f, style_name |-> n,
      bold |-> Some(TRUE), italic |-> None, font_size |-> Some(12),
      font_name |-> None, color |-> Some(<<"F", "F", "0", "0", "0", "0">>),
      base_style |-> b] : f \in files, n \in names, b \in bases}

\* The file names a client passes: none or a file's.
FileNames == {None} \cup {Some(f) : f \in Files}

\* Every operation that takes a filename and changes a document, with and
\* without one: those that insert paragraphs and the others.
FileInsertRequests ==
    InsertHeader(FileNames, FirstParagraph, {Some(<<"b">>)}, {Some("Normal")})
    \cup InsertLine(FileNames, FirstParagraph, {Some(<<"b">>)}, {None})
    \cup InsertList(FileNames, FirstParagraph, {Some(<<<<"b">>>>)}, {"bullet"})
FileRequests ==
    FormatWith(FileNames, {Some(0)}, {0}, {Some(1)},
               {o \in Overrides : o.bold = Some(TRUE)})
    \cup Replace(FileNames, {Some(<<"a">>)}, {Some(<<"a">>)})
    \cup Delete(FileNames, {Some(0)})
    \cup CustomStyles(FileNames, {Some("Custom")}, {Some("Normal")})

\* The calls of the other tools.  Headings of level 1 and 2 have their style
\* in the template as modelled; level 10 is outside what the library takes.
Headings(levels) ==
    {[op |-> "add_heading", text |-> <<"a">>, level |-> l] : l \in levels}
CustomHeadings(levels, sizes) ==
    {[op |-> "add_heading_custom", text |-> <<"a">>, level |-> l, font_size |-> s] :
        l \in levels, s \in sizes}
ListItems(styles) ==
    {[op |-> "add_list_item", text |-> <<"a">>, style |-> s] : s \in styles}
AddRows(tables) == {[op |-> "add_table_row", table_index |-> t] : t \in tables}
AddColumns(tables, widths) ==
    {[op |-> "add_table_column", table_index |-> t, width_pt |-> w] :
        t \in tables, w \in widths}
CellStyles(tables, rows, cols) ==
    {[op |-> "set_table_cell_style", table_index |-> t, row_index |-> r,
      col_index |-> c, shading_color |-> Some(<<"#", "F", "F", "0", "0", "0", "0">>),
      vertical_alignment |-> Some("CENTER")] :
        t \in tables, r \in rows, c \in cols}
Borders(tables, colors) ==
    {[op |-> "set_table_borders", table_index |-> t, border_size |-> 4,
      border_color |-> c] : t \in tables, c \in colors}
DeleteRows(tables, rows) ==
    {[op |-> "delete_table_row", table_index |-> t, row_index |-> r] :
        t \in tables, r \in rows}
DeleteColumns(tables, cols) ==
    {[op |-> "delete_table_column", table_index |-> t, col_index |-> c] :
        t \in tables, c \in cols}
SetCells(tables, rows, cols) ==
    {[op |-> "set_table_cell", table_index |-> t, row_index |-> r, col_index |-> c,
      text |-> <<"b">>, alignment |-> None, bold |-> FALSE, italic |-> FALSE] :
        t \in tables, r \in rows, c \in cols}
AddFormattedText(indexes) ==
    {[op |-> "add_formatted_text", paragraph_index |-> i, text |-> <<"b">>,
      bold |-> TRUE, italic |-> FALSE, font_size |-> None, lang |-> None] :
        i \in indexes}
AddTables(rows, cols, styles) ==
    {[op |-> "add_table", rows |-> r, cols |-> c, style |-> s,
      alignment |-> "CENTER"] : r \in rows, c \in cols, s \in styles}
Merges(tables, cols) ==
    {[op |-> "merge_table_cells", table_index |-> t, start_row |-> 0,
      start_col |-> 0, end_row |-> 0, end_col |-> c] : t \in tables, c \in cols}

ReadingOps ==
    {"extract_document_parameters", "extract_core_properties",
     "extract_custom_properties", "extract_document_variables",
     "extract_section_properties", "extract_styles_info",
     "get_document_structure"}
Readings(ops, files) ==
    {[op |-> o, filename |-> f, all_styles |-> FALSE, compact |-> FALSE] :
        o \in ops, f \in files}

LoadRequests == {[op |-> "load_template", filename |-> f] : f \in Files}
SetCoreProperty(names, values) ==
    {[op |-> "set_core_property", property_name |-> n, value |-> v] :
        n \in names, v \in values}
SetCustomProperty ==
    {[op |-> "set_custom_property", property_name |-> "p", value |-> <<"a">>]}

\* A text of 256 characters, one more than a core property takes.
LongText == [i \in 1..256 |-> "a"]

\* Snapshots, as a client holds them decoded, and the calls that apply their
\* texts.
ParametersOf(sections, paragraph_styles, core_properties) ==
    JObj([k \in {"sections", "styles", "core_properties"} |->
            CASE k = "sections" -> sections
              [] k = "styles" -> JObj("paragraph_styles" :> paragraph_styles)
              [] k = "core_properties" -> core_properties])
Apply(texts, outputs) ==
    {[op |-> "apply_template_parameters", parameters_json |-> t,
      output_filename |-> o] : t \in texts, o \in outputs}

SaveRequests == {[op |-> "save_document", filename |-> f] : f \in {None, Some("f1")}}

\* Texts that json.loads refuses: nothing, an object cut short, a comma with
\* nothing after it, a second value after the first.
Malformed ==
    {<<>>,
     <<Mark("{"), Lit(JName("styles")), Mark(":")>>,
     <<Mark("["), Lit(JNum(1)), Mark(","), Mark("]")>>,
     <<Mark("{"), Mark("}"), Mark("{"), Mark("}")>>}

\* What a client sends to a server it knows nothing of: every tool, with
\* indexes inside and outside the document.
BuildRequests ==
    AddParagraph({<<"a", "b">>}) \cup Headings({1, 10})
    \cup CustomHeadings({2}, {Some(14)})
    \cup ListItems({Some("List Bullet"), Some("Missing")})
    \cup AddTables({1}, {MaxCols}, {Some("Table Grid"), Some("Missing")})
ServerRequests ==
    CreateRequests \cup SaveRequests \cup LoadRequests
    \cup Readings(ReadingOps, FileNames)
    \cup SetCoreProperty({"title", "nope"}, {<<"a">>}) \cup SetCustomProperty
    \cup Apply({Dumps(JObj(<<>>))} \cup {<<>>}, {None})
    \cup FileRequests
    \cup AddRows({0, -1, 1}) \cup AddColumns({0}, {Some(10)})
    \cup CellStyles({0}, {0}, {0, -1}) \cup Borders({0}, {Some(<<"0", "0", "0">>)})
    \cup DeleteRows({0}, {0, -1}) \cup DeleteColumns({0}, {0, -1, MaxCols})
    \cup SetCells({0}, {0}, {-1, MaxCols}) \cup Merges({0}, {1})
    \cup AddFormattedText({0, -1})


\* The longest paragraph text of a document, tables included.
MaxOf(ns) == IF ns = {} THEN 0 ELSE CHOOSE x \in ns : \A y \in ns : y <= x
TextLengths(doc) ==
    {Len(ParagraphText(doc.body[j])) :
        j \in {m \in 1..Len(doc.body) : doc.body[m].k = "p"}}
    \cup UNION {UNION {UNION {{Len(ParagraphText(doc.body[j].rows[r][c].paras[q])) :
                                 q \in 1..Len(doc.body[j].rows[r][c].paras)} :
                              c \in 1..Len(doc.body[j].rows[r])} :
                       r \in 1..Len(doc.body[j].rows)} :
                j \in {m \in 1..Len(doc.body) : doc.body[m].k = "t"}}

\* A request is sent only while the document it meets is within the bounds,
\* and only if its handler keeps every text within MaxLen.
Fits(r) ==
    LET doc == IF "filename" \in DOMAIN r /\ r.op # "create_document"
               THEN OpenDoc(r.filename) ELSE current_doc
        n == IF doc = None THEN 0 ELSE Len(doc[1].body)
    IN  CASE r.op = "add_paragraph" ->
                n < MaxBlocks /\ (doc # None => Len(Paragraphs(doc[1])) < MaxParas)
          [] r.op = "add_table" ->
                n < MaxBlocks /\ (doc # None => Len(Tables(doc[1])) < MaxTables)
          [] r.op \in {"add_heading", "add_heading_custom", "add_list_item"} ->
                n < MaxBlocks /\ (doc # None => Len(Paragraphs(doc[1])) < MaxParas)
          [] r.op = "add_table_row" ->
                doc # None =>
                    \A j \in 1..Len(Tables(doc[1])) :
                        Len(Tables(doc[1])[j].rows) < MaxRows
          [] r.op = "add_table_column" ->
                doc # None =>
                    \A j \in 1..Len(Tables(doc[1])) : Tables(doc[1])[j].cols < MaxCols
          [] r.op \in {"insert_header_near_text",
                       "insert_line_or_paragraph_near_text",
                       "insert_numbered_list_near_text"} -> n <= MaxBlocks
          [] r.op = "add_formatted_text" ->
                doc # None =>
                    /\ MaxOf(TextLengths(doc[1])) + Len(r.text) <= MaxLen
                    /\ \A j \in 1..Len(doc[1].body) :
                           doc[1].body[j].k = "p" => Len(doc[1].body[j].runs) < MaxRuns
          [] r.op = "search_and_replace" ->
                (doc # None /\ TruthySeq(r.find_text)) =>
                    MaxOf(TextLengths(
                        ReplaceAll(doc[1], r.find_text[1],
                                   IF r.replace_text = None THEN <<>>
                                   ELSE r.replace_text[1]).doc)) <= MaxLen
          [] OTHER -> TRUE

Receive(requests) ==
    /\ Idle
    /\ \E r \in requests : Fits(r) /\ request' = Some(r)
    /\ UNCHANGED <<current_doc, current_doc_path, storage, response, pre>>

Reply ==
    /\ response # None
    /\ request' = None
    /\ response' = None
    /\ pre' = None
    /\ UNCHANGED <<current_doc, current_doc_path, storage>>

-----------------------------------------------------------------------------
(* Specifications *)

\* The paths a document is saved to: the files a client names and the path
\* apply_template_parameters remembers when it is given none.
Paths == Files \cup {DefaultPath}

Init ==
    /\ current_doc = None
    /\ current_doc_path = None
    /\ storage = [f \in Paths |-> None]
    /\ request = None
    /\ response = None
    /\ pre = None

\* The whole server, as far as it is modelled.
TemplateRequests == Apply(Malformed, {None})

ReceiveAny ==
    Receive(CreateRequests \cup AddParagraph({<<"a">>, <<"a", "b">>})
            \cup AddTableRequests \cup InsertRequests
            \cup AddFormattedTextRequests \cup FormatRequests
            \cup SetCellRequests \cup MergeRequests \cup ReplaceRequests
            \cup DeleteRequests \cup SaveRequests \cup FileRequests
            \cup FileInsertRequests \cup ServerRequests \cup BuildRequests
            \cup TemplateRequests)

Next ==
    \/ ReceiveAny
    \/ create_document
    \/ add_paragraph
    \/ add_formatted_text
    \/ add_table
    \/ set_table_cell
    \/ merge_table_cells
    \/ save_document
    \/ insert_header_near_text
    \/ insert_line_or_paragraph_near_text
    \/ insert_numbered_list_near_text
    \/ format_text
    \/ search_and_replace
    \/ delete_paragraph
    \/ create_custom_style
    \/ add_heading
    \/ add_heading_custom
    \/ add_list_item
    \/ add_table_row
    \/ add_table_column
    \/ set_table_cell_style
    \/ set_table_borders
    \/ delete_table_row
    \/ delete_table_column
    \/ extract_document_parameters
    \/ extract_core_properties
    \/ extract_custom_properties
    \/ extract_document_variables
    \/ extract_section_properties
    \/ extract_styles_info
    \/ get_document_structure
    \/ load_template
    \/ apply_template_parameters
    \/ set_core_property
    \/ set_custom_property
    \/ Reply

Spec == Init /\ [][Next]_vars

\* The anchored insertion engine: documents of paragraphs and tables, and the
\* three insert operations on them.
ReceiveInsert ==
    Receive(CreateRequests \cup AddParagraph({<<"a">>, <<"a", "b">>})
            \cup AddTableRequests \cup InsertRequests)

NextInsert ==
    \/ ReceiveInsert
    \/ create_document
    \/ add_paragraph
    \/ add_table
    \/ insert_header_near_text
    \/ insert_line_or_paragraph_near_text
    \/ insert_numbered_list_near_text
    \/ Reply

SpecInsert == Init /\ [][NextInsert]_vars

\* The range formatter: paragraphs of plain and of formatted runs, and
\* format_text on them.
ReceiveFormat ==
    Receive(CreateRequests \cup AddParagraph({<<"a", "b">>})
            \cup AddFormattedTextRequests \cup FormatRequests)

NextFormat ==
    \/ ReceiveFormat
    \/ create_document
    \/ add_paragraph
    \/ add_formatted_text
    \/ format_text
    \/ Reply

SpecFormat == Init /\ [][NextFormat]_vars

\* Search and replace: paragraphs, tables with filled and merged cells, and
\* search_and_replace on them.
ReceiveReplace ==
    Receive(CreateRequests \cup AddParagraph({<<"a", "a", "a">>})
            \cup AddTableRequests \cup SetCellRequests \cup MergeRequests
            \cup ReplaceRequests)

NextReplace ==
    \/ ReceiveReplace
    \/ create_document
    \/ add_paragraph
    \/ add_table
    \/ set_table_cell
    \/ merge_table_cells
    \/ search_and_replace
    \/ Reply

SpecReplace == Init /\ [][NextReplace]_vars

\* Files: a current document, the file it is saved to, and every operation
\* that takes a filename, on a file that exists and on one that does not.
\* Paragraphs are inserted while every document, current or stored, is short.
ShortDocuments ==
    /\ current_doc # None => Len(current_doc[1].body) < MaxParas
    /\ \A f \in Files : storage[f] # None => Len(storage[f][1].body) < MaxParas

ReceiveFiles ==
    Receive(CreateRequests \cup SaveRequests \cup FileRequests
            \cup (IF current_doc # None /\ current_doc[1].body = <<>>
                  THEN AddParagraph({<<"a", "b">>}) ELSE {})
            \cup (IF ShortDocuments THEN FileInsertRequests ELSE {}))

NextFiles ==
    \/ ReceiveFiles
    \/ create_document
    \/ add_paragraph
    \/ save_document
    \/ insert_header_near_text
    \/ insert_line_or_paragraph_near_text
    \/ insert_numbered_list_near_text
    \/ format_text
    \/ search_and_replace
    \/ delete_paragraph
    \/ create_custom_style
    \/ Reply

SpecFiles == Init /\ [][NextFiles]_vars

\* The whole server.  With no current document a client calls every tool;
\* with one it builds a single block, works on the table if that is one, and
\* saves, loads and reads.
TableRequests ==
    AddRows({0, -1, 1}) \cup AddColumns({0}, {Some(10)})
    \cup CellStyles({0}, {0}, {-1}) \cup Borders({0}, {Some(<<"0", "0", "0">>)})
    \cup DeleteRows({0}, {-1}) \cup DeleteColumns({0}, {-1, MaxCols})
    \cup SetCells({0}, {0}, {-1, MaxCols})
ReceiveServer ==
    Receive(IF current_doc = None
            THEN ServerRequests \cup BuildRequests \cup FileInsertRequests
            ELSE CreateRequests \cup LoadRequests \cup TableRequests
                 \cup AddFormattedText({0, -1})
                 \cup Readings({"get_document_structure"}, {None})
                 \cup Apply({Dumps(JObj(<<>>))} \cup {<<>>}, {None})
                 \cup (IF current_doc[1].body = <<>>
                       THEN BuildRequests \cup SaveRequests \cup SetCustomProperty
                            \cup SetCoreProperty({"title"}, {<<"a">>})
                       ELSE {}))

NextServer ==
    \/ ReceiveServer
    \/ create_document
    \/ add_paragraph
    \/ add_formatted_text
    \/ add_table
    \/ set_table_cell
    \/ merge_table_cells
    \/ save_document
    \/ insert_header_near_text
    \/ insert_line_or_paragraph_near_text
    \/ insert_numbered_list_near_text
    \/ format_text
    \/ search_and_replace
    \/ delete_paragraph
    \/ create_custom_style
    \/ add_heading
    \/ add_heading_custom
    \/ add_list_item
    \/ add_table_row
    \/ add_table_column
    \/ set_table_cell_style
    \/ set_table_borders
    \/ delete_table_row
    \/ delete_table_column
    \/ extract_document_parameters
    \/ extract_core_properties
    \/ extract_custom_properties
    \/ extract_document_variables
    \/ extract_section_properties
    \/ extract_styles_info
    \/ get_document_structure
    \/ load_template
    \/ apply_template_parameters
    \/ set_core_property
    \/ set_custom_property
    \/ Reply

SpecServer == Init /\ [][NextServer]_vars

\* Templates: a document built, saved and loaded, and snapshots applied over
\* it.  The snapshots are the one extract_document_parameters gives for a
\* document with a paragraph and a table, and hand-written ones: no entry, a
\* value that is no object, a style entry without attributes, entries keyed
\* by a name the document does not have and by a style id, an entry that
\* raises next to one that does not, an entry for a style without a font,
\* and sections and core properties that apply and that raise.
Sample ==
    [CreatedDocument EXCEPT
        !.body = <<MakeParagraph(CreatedDocument.styles, <<"a">>, None),
                   NewTable(1, 2)>>]
StylesOf(paragraph_styles) ==
    JObj("styles" :> JObj("paragraph_styles" :> paragraph_styles))
NotBold == JObj("font" :> JObj("bold" :> JBool(FALSE)))
NoSize == JObj("font" :> JObj("size_pt" :> JNull))
OneSection(margins) ==
    JArr(<<JObj(("margins" :> margins) @@ ("orientation" :> JName("landscape")))>>)
Snapshots ==
    {DocumentParameters(Sample, Some("f1"), TRUE),
     JObj(<<>>),
     JNum(1),
     StylesOf(JObj("Normal" :> JObj(<<>>))),
     StylesOf(JObj("Missing" :> NotBold)),
     StylesOf(JObj("Heading1" :> NotBold)),
     StylesOf(JObj(("Heading 1" :> NotBold) @@ ("Normal" :> NoSize))),
     StylesOf(JObj("No List" :> NotBold)),
     ParametersOf(OneSection(JObj("top_mm" :> JNum(20))),
                  JObj("Heading 1" :> NotBold), JObj("title" :> JStr(<<"a">>))),
     ParametersOf(OneSection(JObj("top_mm" :> JNull)),
                  JObj("Heading 1" :> NotBold), JObj("title" :> JStr(<<"a">>))),
     ParametersOf(OneSection(JObj(<<>>)),
                  JObj("Heading 1" :> NotBold), JObj("title" :> JStr(LongText)))}
SnapshotTexts == {Dumps(v) : v \in Snapshots}

ReceiveTemplate ==
    Receive(CreateRequests \cup LoadRequests
            \cup {[op |-> "save_document", filename |-> Some("f1")]}
            \cup Apply(SnapshotTexts \cup Malformed, {None, Some("f2")})
            \cup (IF current_doc # None /\ current_doc_path = Some("f1")
                     /\ storage["f1"] = None
                  THEN (IF Paragraphs(current_doc[1]) = <<>>
                        THEN AddParagraph({<<"a">>}) ELSE {})
                       \cup (IF Tables(current_doc[1]) = <<>>
                             THEN AddTables({1}, {2}, {Some("Table Grid")})
                             ELSE {})
                  ELSE {}))

NextTemplate ==
    \/ ReceiveTemplate
    \/ create_document
    \/ add_paragraph
    \/ add_table
    \/ save_document
    \/ load_template
    \/ apply_template_parameters
    \/ Reply

SpecTemplate == Init /\ [][NextTemplate]_vars

\* Extraction: a document with a heading, a paragraph or a table, a custom
\* style and core properties set, saved at most while it is small; every
\* reading operation on the current document and on the file, with and
\* without the unused styles; and the client that applies a snapshot it has
\* just been given.
ReadingsOf(ops, files, all) ==
    {[op |-> o, filename |-> f, all_styles |-> a, compact |-> FALSE] :
        o \in ops, f \in files, a \in all}

\* The current document is the one create_document made, as it was or grown.
Growing == current_doc # None /\ current_doc_path = Some("f1")
Untouched(doc) ==
    /\ doc.styles = CreatedDocument.styles
    /\ doc.core_properties = CreatedDocument.core_properties

ReceiveExtract ==
    Receive(CreateRequests
            \cup ReadingsOf(ReadingOps, FileNames, BOOLEAN)
            \cup (IF Growing
                  THEN CustomStyles({None}, {Some("My"), Some("Normal")},
                                    {Some("Normal"), Some("Missing")})
                       \cup SetCoreProperty({"language", "title"}, {<<"a">>})
                       \cup SetCustomProperty
                  ELSE {})
            \cup (IF Growing /\ Len(current_doc[1].body) < 2
                  THEN AddParagraph({<<"a">>}) \cup Headings({1})
                       \cup AddTables({1}, {1}, {Some("Table Grid")})
                  ELSE {})
            \cup (IF Growing /\ Len(current_doc[1].body) < 2
                     /\ Untouched(current_doc[1])
                  THEN {[op |-> "save_document", filename |-> None]}
                  ELSE {}))

\* The client passes the text extract_document_parameters has answered with
\* on to apply_template_parameters.
Resend ==
    /\ request # None /\ response # None
    /\ request[1].op = "extract_document_parameters"
    /\ request' = Some([op |-> "apply_template_parameters",
                        parameters_json |-> response[1].json,
                        output_filename |-> None])
    /\ response' = None
    /\ pre' = None
    /\ UNCHANGED <<current_doc, current_doc_path, storage>>

NextExtract ==
    \/ ReceiveExtract
    \/ Resend
    \/ create_document
    \/ add_paragraph
    \/ add_heading
    \/ add_table
    \/ create_custom_style
    \/ set_core_property
    \/ set_custom_property
    \/ save_document
    \/ extract_document_parameters
    \/ extract_core_properties
    \/ extract_custom_properties
    \/ extract_document_variables
    \/ extract_section_properties
    \/ extract_styles_info
    \/ get_document_structure
    \/ apply_template_parameters
    \/ Reply

SpecExtract == Init /\ [][NextExtract]_vars

\* Storage: documents created, loaded and applied, changed with and without a
\* filename, and saved with and without one.
ReceiveStorage ==
    Receive(CreateRequests \cup SaveRequests \cup LoadRequests
            \cup Apply({Dumps(JObj(<<>>)), <<>>}, {None, Some("f1")})
            \cup Delete(FileNames, {Some(0)})
            \cup (IF current_doc # None /\ current_doc[1].body = <<>>
                  THEN AddParagraph({<<"a">>}) ELSE {})
            \cup (IF ShortDocuments
                  THEN InsertLine(FileNames, FirstParagraph, {Some(<<"b">>)}, {None})
                  ELSE {}))

NextStorage ==
    \/ ReceiveStorage
    \/ create_document
    \/ load_template
    \/ apply_template_parameters
    \/ save_document
    \/ add_paragraph
    \/ insert_line_or_paragraph_near_text
    \/ delete_paragraph
    \/ Reply

SpecStorage == Init /\ [][NextStorage]_vars

-----------------------------------------------------------------------------
(* What the claims read of a finished call *)

Done(ops) == request # None /\ response # None /\ request[1].op \in ops
Req == request[1]
Ret == response[1]
Before == pre[1]

InsertOps == {"insert_header_near_text", "insert_line_or_paragraph_near_text",
              "insert_numbered_list_near_text"}

\* Whether the call worked on a document loaded from its file.
WasLoaded == TruthyStr(Req.filename) /\ Before.storage[Req.filename[1]] # None

\* The document the call worked on, as it was and as it has become.
HadSubject == WasLoaded \/ Before.current_doc # None
SubjectBefore ==
    IF WasLoaded THEN Before.storage[Req.filename[1]][1] ELSE Before.current_doc[1]
SubjectAfter ==
    IF WasLoaded THEN storage[Req.filename[1]][1] ELSE current_doc[1]

NothingChanged ==
    /\ current_doc = Before.current_doc
    /\ current_doc_path = Before.current_doc_path
    /\ storage = Before.storage

\* The texts an insert call was given, in the order given.
ItemsGiven ==
    CASE Req.op = "insert_header_near_text" -> <<Req.header_title[1]>>
      [] Req.op = "insert_line_or_paragraph_near_text" -> <<Req.line_text[1]>>
      [] Req.op = "insert_numbered_list_near_text" -> Req.list_items[1]

ContentGiven ==
    CASE Req.op = "insert_header_near_text" -> TruthySeq(Req.header_title)
      [] Req.op = "insert_line_or_paragraph_near_text" -> TruthySeq(Req.line_text)
      [] Req.op = "insert_numbered_list_near_text" -> TruthySeq(Req.list_items)

Inserted == Ret.msg \in {"Inserted header", "Inserted paragraph", "Inserted list"}
NotFound == Ret.msg = "Target paragraph not found."

\* An insert call that got as far as resolving its anchor.
Resolving == Done(InsertOps) /\ HadSubject /\ ContentGiven

-----------------------------------------------------------------------------
(* C1: an insert with position 'before' at anchor index i of items x1..xn    *)
(* leaves the paragraphs old[0..i-1], x1, ..., xn, old[i], old[i+1..]: the   *)
(* new paragraphs sit directly before the anchor in the order given and no   *)
(* old paragraph is changed.                                                 *)
C1_InsertBeforeKeepsOrder ==
    (Done(InsertOps) /\ Inserted /\ Req.position = "before") =>
        LET old == Paragraphs(SubjectBefore)
            new == Paragraphs(SubjectAfter)
            i == Ret.p_idx
            xs == ItemsGiven
            n == Len(xs)
        IN  /\ Len(new) = Len(old) + n
            /\ \A k \in 1..i : new[k] = old[k]
            /\ \A k \in 1..n : ParagraphText(new[i + k]) = xs[k]
            /\ \A k \in (i + 1)..Len(old) : new[k + n] = old[k]

\* Two different items were inserted before an anchor that is not the first
\* paragraph.
C1_Witness ==
    /\ Done({"insert_numbered_list_near_text"}) /\ Inserted
    /\ Req.position = "before"
    /\ Ret.p_idx >= 1
    /\ Len(Req.list_items[1]) >= 2
    /\ Req.list_items[1][1] # Req.list_items[1][2]

(* C2: an insert with position 'after' at anchor index i of items x1..xn     *)
(* leaves the paragraphs old[0..i], x1, ..., xn, old[i+1..]; when the anchor *)
(* is the last paragraph the new paragraphs end the sequence.                *)
C2_InsertAfterKeepsOrder ==
    (Done(InsertOps) /\ Inserted /\ Req.position = "after") =>
        LET old == Paragraphs(SubjectBefore)
            new == Paragraphs(SubjectAfter)
            i == Ret.p_idx
            xs == ItemsGiven
            n == Len(xs)
        IN  /\ Len(new) = Len(old) + n
            /\ \A k \in 1..(i + 1) : new[k] = old[k]
            /\ \A k \in 1..n : ParagraphText(new[i + 1 + k]) = xs[k]
            /\ \A k \in (i + 2)..Len(old) : new[k + n] = old[k]

\* Two different items were inserted after the last paragraph.
C2_Witness ==
    /\ Done({"insert_numbered_list_near_text"}) /\ Inserted
    /\ Req.position = "after"
    /\ Ret.p_idx + 1 = Len(Paragraphs(SubjectBefore))
    /\ Len(Req.list_items[1]) >= 2
    /\ Req.list_items[1][1] # Req.list_items[1][2]

(* C7: with an explicit target index the anchor is that index when it lies   *)
(* in [0, paragraph count) and is not found otherwise, whatever target_text  *)
(* says: an index out of range is neither clamped nor replaced by a text     *)
(* match.                                                                    *)
C7_ExplicitIndexValidated ==
    (Resolving /\ Req.target_paragraph_index # None) =>
        LET idx == Req.target_paragraph_index[1]
            count == Len(Paragraphs(SubjectBefore))
        IN  IF 0 <= idx /\ idx < count
            THEN ~NotFound /\ (Inserted => Ret.p_idx = idx)
            ELSE NotFound /\ NothingChanged

\* An index out of range came with a target_text that some paragraph holds.
C7_Witness ==
    /\ Resolving /\ Req.target_paragraph_index # None
    /\ Req.target_paragraph_index[1] >= Len(Paragraphs(SubjectBefore))
    /\ Req.target_text # None
    /\ \E k \in 1..Len(Paragraphs(SubjectBefore)) :
           Contains(ParagraphText(Paragraphs(SubjectBefore)[k]), Req.target_text[1])
    /\ NotFound

\* The paragraph indexes (from 0) whose text holds t.
Holding(doc, t) ==
    {k \in 0..(Len(Paragraphs(doc)) - 1) :
        Contains(ParagraphText(Paragraphs(doc)[k + 1]), t)}

C9_MissingAnchorHasOwnError ==
    (Resolving /\ Req.target_text = None /\ Req.target_paragraph_index = None) =>
        ~NotFound

\* The anchor asked for names no paragraph of the document.
Unresolvable ==
    IF Req.target_paragraph_index # None
    THEN ~(Req.target_paragraph_index[1] \in 0..(Len(Paragraphs(SubjectBefore)) - 1))
    ELSE \/ ~TruthySeq(Req.target_text)
         \/ Holding(SubjectBefore, Req.target_text[1]) = {}

(* C10: when the anchor of an insert cannot be resolved (no paragraph holds  *)
(* the text, or the index is out of range) the answer is the resolution      *)
(* error and nothing is inserted, for a list of any length.                  *)
C10_UnresolvedInsertsNothing ==
    (Resolving /\ Unresolvable) => NotFound /\ NothingChanged

\* A list of two items aimed at a text no paragraph holds.
C10_Witness ==
    /\ Done({"insert_numbered_list_near_text"}) /\ Resolving /\ Unresolvable
    /\ TruthySeq(Req.target_text)
    /\ Len(Req.list_items[1]) >= 2
    /\ Len(Paragraphs(SubjectBefore)) >= 1

-----------------------------------------------------------------------------
(* format_text *)

Formatted == Ret.msg = "Formatted text"

\* The paragraph a format_text call names lies in the document.
IndexInRange ==
    /\ Req.paragraph_index # None
    /\ Req.paragraph_index[1] \in 0..(Len(Paragraphs(SubjectBefore)) - 1)

ParagraphBefore == Paragraphs(SubjectBefore)[Req.paragraph_index[1] + 1]
ParagraphAfter == Paragraphs(SubjectAfter)[Req.paragraph_index[1] + 1]

\* end_pos as the spec has it: the text length by default and at most.
EndAsked ==
    LET len == Len(ParagraphText(ParagraphBefore))
    IN  IF Req.end_pos = None \/ Req.end_pos[1] > len THEN len ELSE Req.end_pos[1]

RangeAsked == 0 <= Req.start_pos /\ Req.start_pos < EndAsked

\* The formatting the call asks for, as a run carries it.
Plain(run) == run = Run(run.text)
CarriesOverrides(run) ==
    LET digits == IF Req.color = None THEN <<>> ELSE SelectSeq(Req.color[1], NotHash)
    IN  /\ run.bold = Req.bold
        /\ run.italic = Req.italic
        /\ run.underline = Req.underline
        /\ run.size = Req.font_size
        /\ run.name = Req.font_name
        /\ run.color = IF Len(digits) = 6 /\ \A i \in 1..6 : digits[i] \in HexDigits
                       THEN Some(digits) ELSE None
        /\ run.lang = None

(* C3: format_text on a paragraph of the document with 0 <= start < end (end *)
(* the text length by default and at most) keeps the paragraph's text and    *)
(* leaves at most three runs, the non-empty ones of [0,start), [start,end),  *)
(* [end,len) in that order; the run of [start,end) carries the overrides     *)
(* asked for and the others carry no formatting at all.                      *)
C3_FormatSplitsIntoThreeRuns ==
    (Done({"format_text"}) /\ HadSubject /\ IndexInRange /\ RangeAsked) =>
        LET text == ParagraphText(ParagraphBefore)
            s == Req.start_pos
            e == EndAsked
            spans == <<<<0, s>>, <<s, e>>, <<e, Len(text)>>>>
            NonEmpty(sp) == sp[1] < sp[2]
            kept == SelectSeq(spans, NonEmpty)
            runs == ParagraphAfter.runs
        IN  /\ Formatted
            /\ Ret.end_pos = e
            /\ ParagraphText(ParagraphAfter) = text
            /\ Len(runs) = Len(kept)
            /\ \A k \in 1..Len(runs) :
                /\ runs[k].text # <<>>
                /\ runs[k].text = SubSeq(text, kept[k][1] + 1, kept[k][2])
                /\ IF kept[k] = <<s, e>> THEN CarriesOverrides(runs[k])
                   ELSE Plain(runs[k])

\* A paragraph that held a formatted run was split into three runs.
C3_Witness ==
    /\ Done({"format_text"}) /\ HadSubject /\ IndexInRange /\ RangeAsked
    /\ Formatted
    /\ \E k \in 1..Len(ParagraphBefore.runs) : ~Plain(ParagraphBefore.runs[k])
    /\ Len(ParagraphAfter.runs) = 3

(* C4: format_text with a paragraph index that is missing or outside         *)
(* [0, paragraph count), or with start < 0 or start >= end (end the text     *)
(* length by default and at most, so on every empty paragraph), answers a    *)
(* validation error and changes nothing.                                     *)
C4_InvalidFormatChangesNothing ==
    (Done({"format_text"}) /\ HadSubject /\ ~(IndexInRange /\ RangeAsked)) =>
        /\ Ret.msg = IF IndexInRange THEN "Invalid start_pos or end_pos."
                     ELSE "Invalid paragraph index."
        /\ NothingChanged

\* start = end on a paragraph of several runs, one of them formatted.
C4_Witness ==
    /\ Done({"format_text"}) /\ HadSubject /\ IndexInRange
    /\ Req.start_pos = EndAsked
    /\ Len(ParagraphBefore.runs) >= 2
    /\ \E k \in 1..Len(ParagraphBefore.runs) : ~Plain(ParagraphBefore.runs[k])
    /\ Ret.msg = "Invalid start_pos or end_pos."

-----------------------------------------------------------------------------
(* search_and_replace *)

Replaced == Ret.msg = "Replaced"

\* The paragraphs of a document, each named by its place: <<j>> for the body
\* block j, <<j, r, c, q>> for paragraph q of cell element c of row r of the
\* table that is body block j.
ParagraphPlaces(doc) ==
    {<<j>> : j \in {m \in 1..Len(doc.body) : doc.body[m].k = "p"}}
    \cup UNION {UNION {UNION {{<<j, r, c, q>> :
                                 q \in 1..Len(doc.body[j].rows[r][c].paras)} :
                              c \in 1..Len(doc.body[j].rows[r])} :
                       r \in 1..Len(doc.body[j].rows)} :
                j \in {m \in 1..Len(doc.body) : doc.body[m].k = "t"}}

ParagraphAt(doc, at) ==
    IF Len(at) = 1 THEN doc.body[at[1]]
    ELSE doc.body[at[1]].rows[at[2]][at[3]].paras[at[4]]

\* The paragraphs whose text held find_text when the call began.
Matching ==
    {at \in ParagraphPlaces(SubjectBefore) :
        Contains(ParagraphText(ParagraphAt(SubjectBefore, at)), Req.find_text[1])}

ReplaceAsked == IF Req.replace_text = None THEN <<>> ELSE Req.replace_text[1]

(* C5: the count search_and_replace reports is the number of paragraphs the  *)
(* call modified, body paragraphs and table-cell paragraphs whose text held  *)
(* find_text, each counted once.                                             *)
C5_CountIsParagraphsModified ==
    (Done({"search_and_replace"}) /\ Replaced) =>
        Ret.replace_count = Cardinality(Matching)

(* C6: after search_and_replace every paragraph whose text held find_text is *)
(* one run, its text the old text with the occurrences of find_text, taken   *)
(* from the left without overlap, replaced; every other paragraph is as it   *)
(* was; with no match the count is 0 and the document is unchanged.          *)
C6_MatchingParagraphsAreRewritten ==
    (Done({"search_and_replace"}) /\ Replaced) =>
        /\ ParagraphPlaces(SubjectAfter) = ParagraphPlaces(SubjectBefore)
        /\ \A at \in ParagraphPlaces(SubjectBefore) :
              LET old == ParagraphAt(SubjectBefore, at)
                  new == ParagraphAt(SubjectAfter, at)
              IN  IF at \in Matching
                  THEN /\ Len(new.runs) = 1
                       /\ new.runs[1].text =
                            ReplaceText(ParagraphText(old), Req.find_text[1],
                                        ReplaceAsked)
                  ELSE new = old
        /\ Matching = {} => (Ret.replace_count = 0 /\ SubjectAfter = SubjectBefore)

-----------------------------------------------------------------------------
(* Files and the current document *)

\* The operations that take a filename and change the document they open.
FileOps ==
    InsertOps \cup {"format_text", "search_and_replace", "delete_paragraph",
                    "create_custom_style"}

\* The answers of a call that did what it was asked.
Succeeded ==
    \/ Inserted
    \/ Ret.msg \in {"Formatted text", "Replaced", "Deleted paragraph",
                    "Created custom paragraph style"}

\* The call named a file that storage does not hold.
FileMissing == TruthyStr(Req.filename) /\ Before.storage[Req.filename[1]] = None

(* C11: an insert, format_text, search_and_replace, delete_paragraph or      *)
(* create_custom_style call that names a file storage does not hold is       *)
(* answered with an error and has no effect: the current document is not     *)
(* changed and no file is written.                                           *)
C11_MissingFileHasNoEffect ==
    (Done(FileOps) /\ FileMissing) => (~Succeeded /\ NothingChanged)

(* C12: a call of an operation other than create_document, load_template and *)
(* apply_template_parameters that passes a filename leaves the current       *)
(* document, its content and its reference, and the current path as they     *)
(* were: only the document loaded from the file is changed.                  *)
C12_ExplicitFileSparesCurrentDocument ==
    (Done(FileOps \cup {"save_document"}) /\ TruthyStr(Req.filename)) =>
        /\ current_doc = Before.current_doc
        /\ current_doc_path = Before.current_doc_path


-----------------------------------------------------------------------------
(* Errors before anything is done *)

\* The operations that make a document current.
Establishing == {"create_document", "load_template", "apply_template_parameters"}

\* A call of any other operation has been answered.
Answered == request # None /\ response # None /\ Req.op \notin Establishing

\* The call named no file, or one that storage does not hold.
NoUsableFile ==
    \/ "filename" \notin DOMAIN Req
    \/ ~TruthyStr(Req.filename)
    \/ Before.storage[Req.filename[1]] = None

\* The answer is a JSON text of an object with the key "error".
IsJsonError(ret) ==
    /\ "json" \in DOMAIN ret
    /\ Loads(ret.json).ok
    /\ Key(Loads(ret.json).v, "error")

(* C13: while there is no current document, a call of any operation other    *)
(* than create_document, load_template and apply_template_parameters that    *)
(* names no file, or a file that does not exist, is answered with the        *)
(* no-active-document error (a reading operation with a JSON error object)   *)
(* and changes nothing: there is still no current document, no path, and     *)
(* storage is as it was.                                                     *)
C13_NoDocumentIsAnErrorWithoutEffect ==
    (Answered /\ Before.current_doc = None /\ NoUsableFile) =>
        /\ IF Req.op \in ReadingOps THEN IsJsonError(Ret)
           ELSE Ret \in {NoActiveDocument, NoActiveDocumentOrTemplate}
        /\ NothingChanged
        /\ current_doc = None

C13_Witness ==
    /\ Done({"set_custom_property", "delete_table_column", "save_document"})
    /\ Before.current_doc = None
    /\ Ret \in {NoActiveDocument, NoActiveDocumentOrTemplate}

\* The answers that report a failure.
ErrorMessages ==
    {"Base style does not exist.", "Column index out of range.",
     "Error applying style to table", "Error deleting column",
     "Error parsing JSON", "Error setting custom property",
     "Error setting table borders", "Error: File not found",
     "Invalid paragraph index.", "Invalid position. Use 'before' or 'after'.",
     "Invalid property.", "Invalid start_pos or end_pos.",
     "No active document. Call create_document first.",
     "No active document. Call create_document or load_template first.",
     "No filename specified.", "Paragraph index out of range.",
     "Style already exists.", "Table index out of range.",
     "Table or cell index out of range.", "Table or cell indices out of range.",
     "Table or row index out of range.", "Target paragraph not found.",
     "find_text is required.", "header_title is required.",
     "line_text is required.", "list_items is required.",
     "style_name is required."}

\* The call was answered with an error, or raised.
Failed ==
    /\ request # None /\ response # None
    /\ \/ IsJsonError(Ret)
       \/ "msg" \in DOMAIN Ret /\ Ret.msg \in ErrorMessages \cup {"raise"}

(* C14: a call of any operation that is answered with an error, or raises,   *)
(* has changed nothing: the current document, the reference to it, its path  *)
(* and every stored document are as they were before the call.               *)
C14_FailedCallChangesNothing == Failed => NothingChanged

-----------------------------------------------------------------------------
(* Indexes *)

\* The operations that take indexes into the current document.
IndexOps ==
    {"add_formatted_text", "add_table_row", "add_table_column",
     "set_table_cell", "merge_table_cells", "set_table_cell_style",
     "set_table_borders", "delete_table_row", "delete_table_column"}

\* The fields of a call that index rows, and those that index columns.
RowFields == {"row_index", "start_row", "end_row"}
ColFields == {"col_index", "start_col", "end_col"}

Within(i, count) == 0 <= i /\ i < count

\* Some index of the call lies outside [0, count) of what it counts, in the
\* document as it was before the call.
SomeIndexOutside ==
    LET doc == Before.current_doc[1]
        tables == Tables(doc)
    IN  \/ /\ "paragraph_index" \in DOMAIN Req
           /\ ~Within(Req.paragraph_index, Len(Paragraphs(doc)))
        \/ /\ "table_index" \in DOMAIN Req
           /\ ~Within(Req.table_index, Len(tables))
        \/ /\ "table_index" \in DOMAIN Req
           /\ Within(Req.table_index, Len(tables))
           /\ LET t == tables[Req.table_index + 1]
              IN  \/ \E f \in RowFields \cap DOMAIN Req : ~Within(Req[f], Len(t.rows))
                  \/ \E f \in ColFields \cap DOMAIN Req : ~Within(Req[f], t.cols)

(* C15: a call of add_formatted_text or of a table operation on the current  *)
(* document with a paragraph, table, row or column index outside [0, count), *)
(* a negative one included, is answered with an error and changes nothing.   *)
C15_IndexOutsideIsAnError ==
    (Done(IndexOps) /\ Before.current_doc # None /\ SomeIndexOutside) =>
        Failed /\ NothingChanged

-----------------------------------------------------------------------------
(* Applying a snapshot *)

ApplyDone == Done({"apply_template_parameters"})
Parameters == Loads(Req.parameters_json)
Created == "Created new document with template parameters"

\* The document but for what a snapshot sets: sections, styles, properties.
Bare(doc) ==
    [doc EXCEPT !.sections = NewDocument.sections,
                !.styles = NewDocument.styles,
                !.core_properties = NewDocument.core_properties]

(* C16: after apply_template_parameters with a text that is well-formed JSON *)
(* the current document is a new one: it has no paragraph and no table and,  *)
(* but for its sections, styles and core properties, is the document that    *)
(* Document() gives, whatever the snapshot records of tables and counts and  *)
(* whatever was current before; the path is the output filename or the       *)
(* default, and no stored document has changed.                              *)
C16_WellFormedSnapshotGivesNewEmptyDocument ==
    (ApplyDone /\ Parameters.ok) =>
        /\ current_doc # None
        /\ Paragraphs(current_doc[1]) = <<>>
        /\ Tables(current_doc[1]) = <<>>
        /\ Bare(current_doc[1]) = NewDocument
        /\ current_doc_path = Some(IF TruthyStr(Req.output_filename)
                                   THEN Req.output_filename[1] ELSE DefaultPath)
        /\ storage = Before.storage

C16_Witness ==
    /\ ApplyDone
    /\ Parameters.ok
    /\ Key(Parameters.v, "tables")
    /\ Parameters.v.o["tables"].a # <<>>
    /\ Before.current_doc # None
    /\ Tables(Before.current_doc[1]) # <<>>
    /\ Paragraphs(Before.current_doc[1]) # <<>>
    /\ Ret.msg = Created

(* C17: apply_template_parameters with a text that is not well-formed JSON   *)
(* answers with the parsing error and makes or changes no document: the      *)
(* current document, its path and the stored documents are as before.        *)
C17_MalformedSnapshotChangesNothing ==
    (ApplyDone /\ ~Parameters.ok) =>
        /\ Ret = [msg |-> "Error parsing JSON"]
        /\ NothingChanged

C17_Witness ==
    /\ ApplyDone
    /\ ~Parameters.ok
    /\ Req.parameters_json # <<>>
    /\ Before.current_doc # None
    /\ Before.current_doc[1].body # <<>>
    /\ Ret.msg = "Error parsing JSON"

\* The entries of paragraph_styles in the snapshot of the call.
HasEntries ==
    /\ Parameters.ok
    /\ Key(Parameters.v, "styles")
    /\ Key(Parameters.v.o["styles"], "paragraph_styles")
    /\ Parameters.v.o["styles"].o["paragraph_styles"].j = "obj"
Entries == Parameters.v.o["styles"].o["paragraph_styles"].o

\* The entry carries an attribute of the font or of the paragraph format.
CarriesAttribute(info) ==
    \E part \in {"font", "paragraph_format"} :
        /\ Key(info, part)
        /\ info.o[part].j = "obj"
        /\ DOMAIN info.o[part].o # {}

\* The application of the entry of that name to the style of the new
\* document raises.
EntryRaises(n) ==
    AssignAll(NewDocument.styles[n],
              StyleSteps(NewDocument.styles[n], Entries[n])).raised

(* C18: the count apply_template_parameters reports is the number of         *)
(* entries of paragraph_styles that name a style of the new document, carry  *)
(* an attribute of the font or of the paragraph format, and were applied; an *)
(* entry that carries none is not counted.                                   *)
C18_CountIsStylesThatReceivedAProperty ==
    (ApplyDone /\ HasEntries /\ Ret.msg = Created) =>
        Ret.styles_applied =
            Cardinality({n \in DOMAIN Entries \cap DOMAIN NewDocument.styles :
                            CarriesAttribute(Entries[n]) /\ ~EntryRaises(n)})

(* C19: apply_template_parameters makes no style: the styles of the document *)
(* it leaves are those of a new document by name, and when no entry of       *)
(* paragraph_styles bears the name of one of them, no style has changed and  *)
(* the count reported is 0.                                                  *)
C19_UnknownStyleNamesArePassedOver ==
    (ApplyDone /\ Parameters.ok) =>
        /\ DOMAIN current_doc[1].styles = DOMAIN NewDocument.styles
        /\ (HasEntries /\ DOMAIN Entries \cap DOMAIN NewDocument.styles = {}) =>
              /\ current_doc[1].styles = NewDocument.styles
              /\ Ret.msg = Created => Ret.styles_applied = 0

\* The snapshot has the shape of one: an object whose sections are objects in
\* a list, with margins an object, and whose styles and core properties are
\* objects.
IsObject(v, key) == Key(v, key) => v.o[key].j = "obj"
WellShaped ==
    /\ Parameters.ok
    /\ Parameters.v.j = "obj"
    /\ Key(Parameters.v, "sections") =>
          /\ Parameters.v.o["sections"].j = "arr"
          /\ \A i \in DOMAIN Parameters.v.o["sections"].a :
                /\ Parameters.v.o["sections"].a[i].j = "obj"
                /\ IsObject(Parameters.v.o["sections"].a[i], "margins")
    /\ IsObject(Parameters.v, "styles")
    /\ Key(Parameters.v, "styles") => IsObject(Parameters.v.o["styles"], "paragraph_styles")
    /\ IsObject(Parameters.v, "core_properties")

(* C20: apply_template_parameters with a snapshot of the right shape always  *)
(* completes with its normal status, whatever value an entry of a section,   *)
(* of a style or of the core properties holds: an entry whose application    *)
(* raises is passed over and does not end the call.                          *)
C20_RaisingEntryDoesNotEndTheCall ==
    (ApplyDone /\ WellShaped) => Ret.msg = Created

\* The core properties of the snapshot of the call.
HasProperties ==
    /\ Parameters.ok
    /\ Key(Parameters.v, "core_properties")
    /\ Parameters.v.o["core_properties"].j = "obj"
Properties == Parameters.v.o["core_properties"].o

(* C21: when apply_template_parameters completes, every core property of the *)
(* snapshot's core_properties that the document has (author, title, ...,     *)
(* content_status, identifier, language) holds in the new document the value *)
(* the snapshot gives it.                                                    *)
C21_EveryCorePropertyIsCopied ==
    (ApplyDone /\ HasProperties /\ Ret.msg = Created) =>
        \A n \in DOMAIN Properties \cap CorePropertyNames :
            current_doc[1].core_properties[n] = PyStr(Properties[n])

\* What extract_document_parameters gives for the document the call left,
\* all its styles included.
Reextracted == DocumentParameters(current_doc[1], None, TRUE)

\* The snapshot of the call is one extract_document_parameters has given.
IsExtracted ==
    /\ Parameters.ok
    /\ Key(Parameters.v, "source_file")
    /\ Key(Parameters.v, "sections")
    /\ Key(Parameters.v, "styles")

\* The margins and the orientation a snapshot records for its sections.
Geometry(snapshot) ==
    [i \in DOMAIN snapshot.o["sections"].a |->
        [margins |-> snapshot.o["sections"].a[i].o["margins"],
         orientation |-> snapshot.o["sections"].a[i].o["orientation"]]]

\* The attributes a snapshot records for a style: its font and its paragraph
\* format, where it has them.
Attributes(info) ==
    [part \in {"font", "paragraph_format"} \cap DOMAIN info.o |-> info.o[part]]
StyleKinds == {"paragraph_styles", "character_styles", "table_styles", "list_styles"}

(* C22: after a snapshot that extract_document_parameters gave has been      *)
(* applied, the new document has the margins and the orientation of the      *)
(* snapshot's sections, and every style the snapshot records is a style of   *)
(* the new document whose font and paragraph format, as extracted, are those *)
(* the snapshot records.                                                     *)
C22_AppliedSnapshotIsReextracted ==
    (ApplyDone /\ IsExtracted /\ Ret.msg = Created) =>
        /\ Geometry(Reextracted) = Geometry(Parameters.v)
        /\ \A kind \in StyleKinds :
              \A n \in DOMAIN Parameters.v.o["styles"].o[kind].o :
                  /\ n \in DOMAIN Reextracted.o["styles"].o[kind].o
                  /\ Attributes(Reextracted.o["styles"].o[kind].o[n])
                        = Attributes(Parameters.v.o["styles"].o[kind].o[n])

-----------------------------------------------------------------------------
(* Extraction *)

\* The document a reading call read, if any: the file it named, or the
\* current document.
ReadDone == Done(ReadingOps)
WasRead ==
    IF TruthyStr(Req.filename) THEN Before.storage[Req.filename[1]]
    ELSE Before.current_doc
Answer_ == Loads(Ret.json).v

\* The styles map of the answer, for the two operations that give one, and
\* the names in it.
GivesStyles ==
    /\ Done({"extract_styles_info", "extract_document_parameters"})
    /\ WasRead # None
StylesGiven ==
    IF Req.op = "extract_styles_info" THEN Answer_ ELSE Answer_.o["styles"]
NamesGiven == UNION {DOMAIN StylesGiven.o[kind].o : kind \in StyleKinds}

\* The style of some paragraph of the body or of a table cell.
StyleOfSomeParagraph(doc, n) ==
    \/ \E i \in 1..Len(Paragraphs(doc)) : Paragraphs(doc)[i].style = n
    \/ \E i \in 1..Len(Tables(doc)) :
          \E r \in 1..Len(Tables(doc)[i].rows) :
              \E c \in 1..Len(Tables(doc)[i].rows[r]) :
                  \E q \in 1..Len(Tables(doc)[i].rows[r][c].paras) :
                      Tables(doc)[i].rows[r][c].paras[q].style = n

EntriesOf(given) ==
    {e \in StyleKinds \X UNION {DOMAIN given.o[kind].o : kind \in StyleKinds} :
        e[2] \in DOMAIN given.o[e[1]].o}
Part(given, e, part) == given.o[e[1]].o[e[2]].o[part]
HasPart(given, e, part) == Key(given.o[e[1]].o[e[2]], part)

\* An attribute is at its default: not set, False, zero, or single spacing.
Unset(o) == o = None
Off(o) == o \in {None, Some(FALSE)}
Zero(o) == o \in {None, Some(0)}
Single(o) == o \in {None, Some(0), Some(240)}
AllDefault(style) ==
    /\ Unset(style.font.name) /\ Zero(style.font.size) /\ Unset(style.font.color)
    /\ Off(style.font.bold) /\ Off(style.font.italic) /\ Off(style.font.underline)
    /\ Unset(style.pf.alignment) /\ Single(style.pf.line_spacing)
    /\ Zero(style.pf.space_before) /\ Zero(style.pf.space_after)
    /\ Zero(style.pf.first_line_indent) /\ Zero(style.pf.left_indent)
    /\ Zero(style.pf.right_indent)

\* The lengths of a paragraph format and the keys they are recorded under.
LengthKeys ==
    {<<"space_before_pt", "space_before">>, <<"space_after_pt", "space_after">>,
     <<"first_line_indent_mm", "first_line_indent">>,
     <<"left_indent_mm", "left_indent">>, <<"right_indent_mm", "right_indent">>}

MinimalEntry(given, e, style) ==
    /\ HasPart(given, e, "font") =>
          /\ DOMAIN Part(given, e, "font").o # {}
          /\ \A k \in {"bold", "italic"} :
                Key(Part(given, e, "font"), k) => style.font[k] = Some(TRUE)
    /\ HasPart(given, e, "paragraph_format") =>
          /\ DOMAIN Part(given, e, "paragraph_format").o # {}
          /\ Key(Part(given, e, "paragraph_format"), "line_spacing") =>
                ~Single(style.pf.line_spacing)
          /\ \A k \in LengthKeys :
                Key(Part(given, e, "paragraph_format"), k[1]) =>
                    ~Zero(style.pf[k[2]])
    /\ AllDefault(style) =>
          ~HasPart(given, e, "font") /\ ~HasPart(given, e, "paragraph_format")
Minimal(given, styles) ==
    \A e \in EntriesOf(given) : MinimalEntry(given, e, styles[e[2]])

(* C24: in the styles map of an extraction, a style's entry records bold and *)
(* italic only when they are true, the line spacing only when it is not      *)
(* single, a spacing or an indent only when it is not zero; a font or a      *)
(* paragraph_format that is recorded is not empty, and a style whose         *)
(* attributes are all at their default has neither.                          *)
C24_OnlyNonDefaultAttributesAreRecorded ==
    GivesStyles => Minimal(StylesGiven, WasRead[1].styles)

\* An entry for a style set to bold False, zero spacing before and single
\* spacing, which records none of them, next to an entry for a style with
\* every attribute at its default.
Unrecorded(given, e, style) ==
    /\ style.font.bold = Some(FALSE)
    /\ style.pf.space_before = Some(0)
    /\ style.pf.line_spacing = Some(240)
    /\ HasPart(given, e, "font") /\ ~Key(Part(given, e, "font"), "bold")
    /\ HasPart(given, e, "paragraph_format")
    /\ ~Key(Part(given, e, "paragraph_format"), "line_spacing")
    /\ ~Key(Part(given, e, "paragraph_format"), "space_before_pt")
EntryWithout(given, e, style) ==
    /\ AllDefault(style)
    /\ ~HasPart(given, e, "font") /\ ~HasPart(given, e, "paragraph_format")
Witnessed(given, styles) ==
    /\ \E e \in EntriesOf(given) : Unrecorded(given, e, styles[e[2]])
    /\ \E e \in EntriesOf(given) : EntryWithout(given, e, styles[e[2]])
C24_Witness == GivesStyles /\ Witnessed(StylesGiven, WasRead[1].styles)

(* C25: a call of extract_document_parameters, of a partial extract_*        *)
(* operation or of get_document_structure changes nothing, whether it reads  *)
(* the current document or a file: the current document, its path and every  *)
(* stored document are as before; for a file that does not exist the answer  *)
(* is a JSON error object.                                                   *)
C25_ReadingChangesNothing ==
    ReadDone =>
        /\ NothingChanged
        /\ (TruthyStr(Req.filename) /\ Before.storage[Req.filename[1]] = None) =>
              IsJsonError(Ret)

\* A file read while the current document is another one.
C25_Witness ==
    /\ ReadDone
    /\ Req.op = "get_document_structure"
    /\ TruthyStr(Req.filename)
    /\ Before.storage[Req.filename[1]] # None
    /\ Before.current_doc # None
    /\ Before.current_doc # Before.storage[Req.filename[1]]
    /\ ~IsJsonError(Ret)

-----------------------------------------------------------------------------
(* Custom styles and custom properties *)

StyleAsked == Done({"create_custom_style"}) /\ HadSubject /\ TruthyStr(Req.style_name)
NameInUse == Req.style_name[1] \in DOMAIN SubjectBefore.styles
BaseMissing ==
    Req.base_style = None \/ StyleNamed(SubjectBefore.styles, Req.base_style[1]) = None

(* C26: create_custom_style with a name that is a style of the document      *)
(* answers that the style already exists, and with a new name and a base     *)
(* style the document does not have that the base style does not exist; in   *)
(* both cases nothing changes: no style is added, none is overwritten, and   *)
(* no file is written.                                                       *)
C26_NameInUseOrBaseMissingChangesNothing ==
    (StyleAsked /\ (NameInUse \/ BaseMissing)) =>
        /\ Ret.msg = IF NameInUse THEN "Style already exists."
                     ELSE "Base style does not exist."
        /\ NothingChanged

\* The custom style asked for a second time.
C26_Witness ==
    /\ StyleAsked
    /\ Req.style_name = Some("My")
    /\ Req.base_style = Some("Missing")
    /\ NameInUse
    /\ Ret.msg = "Style already exists."
    /\ current_doc[1].styles["My"].base_style = Some("Normal")

Noting == Done({"set_custom_property"}) /\ Before.current_doc # None
Notes == {"Custom property noted.", "Error setting custom property"}

-----------------------------------------------------------------------------
(* Inserts in the body order of blocks *)

\* The body position (from 1) of the anchor paragraph before the call.
AnchorPos == BodyPos(SubjectBefore.body, Ret.p_idx)

(* C28: in the body order of paragraphs and tables, a successful insert with *)
(* position 'after' of n items leaves the blocks up to the anchor as they    *)
(* were, then the n new paragraphs, then the blocks that followed the anchor *)
(* as they were: no table stands between the anchor and the first new block. *)
C28_InsertAfterIsDirectlyAfterAnchor ==
    (Done(InsertOps) /\ Inserted /\ Req.position = "after") =>
        LET old == SubjectBefore.body
            new == SubjectAfter.body
            j == AnchorPos
            n == Len(ItemsGiven)
        IN  /\ Len(new) = Len(old) + n
            /\ SubSeq(new, 1, j) = SubSeq(old, 1, j)
            /\ \A k \in 1..n :
                   /\ IsParagraph(new[j + k])
                   /\ ParagraphText(new[j + k]) = ItemsGiven[k]
            /\ SubSeq(new, j + n + 1, Len(new)) = SubSeq(old, j + 1, Len(old))

\* Where paragraph k (from 0) of the old sequence stands after an insert of n
\* items at anchor i.
Moved(k, i, n, position) ==
    IF position = "before" THEN (IF k < i THEN k ELSE k + n)
    ELSE (IF k <= i THEN k ELSE k + n)

(* C29: a successful insert of n items at anchor index i adds exactly n      *)
(* paragraphs and changes no paragraph that was there: with 'before' the     *)
(* paragraphs 0..i-1 keep their index and the anchor and all after it move   *)
(* by n, with 'after' the paragraphs 0..i keep their index and all after the *)
(* anchor move by n; and deleting paragraph i of the result of a one-item    *)
(* 'before' insert at i gives back the document as it was.                   *)
C29_InsertShiftsIndicesAndDeleteUndoes ==
    (Done(InsertOps) /\ Inserted) =>
        LET old == Paragraphs(SubjectBefore)
            new == Paragraphs(SubjectAfter)
            i == Ret.p_idx
            n == Len(ItemsGiven)
        IN  /\ Len(new) = Len(old) + n
            /\ \A k \in 0..(Len(old) - 1) :
                   new[Moved(k, i, n, Req.position) + 1] = old[k + 1]
            /\ (Req.position = "before" /\ n = 1) =>
                   /\ i < Len(new)
                   /\ RemoveParagraph(SubjectAfter, i) = SubjectBefore

\* One item was inserted before the second paragraph of a document in which
\* a table comes first.
C29_Witness ==
    /\ Done(InsertOps) /\ Inserted
    /\ Req.position = "before"
    /\ Len(ItemsGiven) = 1
    /\ Ret.p_idx = 1
    /\ IsTable(SubjectBefore.body[1])
    /\ RemoveParagraph(SubjectAfter, 1) = SubjectBefore

-----------------------------------------------------------------------------
(* What is written to storage *)

\* The call was given a file to work on.
NamedFile ==
    /\ Req.op \notin Establishing
    /\ "filename" \in DOMAIN Req
    /\ TruthyStr(Req.filename)

\* The path the call asks to be remembered.
PathGiven ==
    CASE Req.op = "apply_template_parameters" ->
             IF TruthyStr(Req.output_filename) THEN Req.output_filename[1]
             ELSE DefaultPath
      [] OTHER -> Req.filename

SavedToRemembered ==
    /\ Done({"save_document"})
    /\ ~TruthyStr(Req.filename)
    /\ Ret.msg = "Document saved"

(* C30: a call changes storage only if it is save_document or was given a    *)
(* filename to work on: create_document, load_template,                      *)
(* apply_template_parameters and every call without a filename leave storage *)
(* as it was; the remembered path changes only in a create_document,         *)
(* load_template or apply_template_parameters, to the path that call was     *)
(* given; and save_document without a filename writes the current document   *)
(* to the remembered path and to no other.                                   *)
C30_StorageIsWrittenBySaveOrNamedFile ==
    (request # None /\ response # None) =>
        /\ storage # Before.storage => (Req.op = "save_document" \/ NamedFile)
        /\ current_doc_path # Before.current_doc_path =>
               (Req.op \in Establishing /\ current_doc_path = Some(PathGiven))
        /\ SavedToRemembered =>
               /\ Before.current_doc_path # None
               /\ Ret.target_path = Before.current_doc_path[1]
               /\ storage = [Before.storage EXCEPT
                               ![Before.current_doc_path[1]] = Before.current_doc]

\* A document made by apply_template_parameters without output_filename is
\* saved without a filename: it is written to the default path.
C30_Witness ==
    /\ SavedToRemembered
    /\ Before.current_doc_path = Some(DefaultPath)
    /\ Before.storage[DefaultPath] = None
    /\ storage[DefaultPath] = current_doc
    /\ storage["f1"] # None
    /\ storage["f1"] # current_doc
=============================================================================
